---- MODULE Spec2Model ----
(***************************************************************************)
(* ProjectMnemosyne marketplace scripts: the structural validator          *)
(* (scripts/validate_plugins.py), the index builder                        *)
(* (scripts/generate_marketplace.py) and the three section patchers        *)
(* (scripts/fix_validation_warnings.py, fix_remaining_warnings.py,         *)
(* fix_failed_attempts_tables.py).                                         *)
(*                                                                         *)
(* A Python str is a sequence of one-character strings; the regular        *)
(* expressions of the scripts are operators over such sequences, with      *)
(* Python's semantics for ^, $ and \Z.                                     *)
(***************************************************************************)
EXTENDS Integers, Sequences, FiniteSets, TLC

VARIABLES
    rootExists,   \* validator: whether the plugins directory exists
    tree,         \* validator: the plugin tree, in directory-listing order
    pc,           \* validator: position in main() ("off" when another tool runs)
    plugins,      \* validator: what find_plugins returned
    results,      \* validator: the ValidationResult list built so far
    printed,      \* validator: how many per-plugin blocks are printed
    out,          \* validator: the lines printed so far
    exitCode,     \* validator: the process exit code (-1 while running)
    idxRootExists, \* index builder: whether the plugins directory exists
    idxTree,      \* index builder: the plugin directories on disk (a set)
    ipc,          \* index builder: position in main() ("off" when another tool runs)
    run,          \* index builder: which run over the unchanged tree this is
    listing,      \* index builder: what find_plugins returned in this run
    loaded,       \* index builder: how many plugins of the listing are processed
    entries,      \* index builder: plugin_entries
    marketplace,  \* index builder: the "plugins" array of the dict to write
    outFile,      \* index builder: the content of the output file on disk
    prevFile,     \* index builder: the content of the output file before open()
    firstPlugins, \* index builder: the "plugins" array of the first run
    patcher,      \* patchers: which script runs ("off" when another tool runs)
    file,         \* patchers: the content of the SKILL.md on disk
    history,      \* patchers: one record per fix_skill_file call so far
    fn,           \* single call: the function called ("off" when a tool runs)
    disk0,        \* single call: the directory tree when the call starts
    disk,         \* single call: the directory tree now
    ret,          \* single call: how the call ended ("pending" before it)
    rtool,        \* patcher run: which script's main runs ("off" otherwise)
    docs,         \* patcher run: the SKILL.md files of the loop, as on disk
    orig,         \* patcher run: their content before the first run
    rpos,         \* patcher run: how many files the loop has passed
    rpc,          \* patcher run: position in main() and write_file
    pending,      \* patcher run: the content write_file has yet to write
    attempt,      \* patcher run: 1 in the first run, 2 in the run after it
    fixed         \* patcher run: the files whose fix_skill_file call returned

valVars == <<rootExists, tree, pc, plugins, results, printed, out, exitCode>>

idxVars == <<idxRootExists, idxTree, ipc, run, listing, loaded, entries, marketplace,
             outFile, prevFile, firstPlugins>>

patchVars == <<patcher, file, history>>

callVars == <<fn, disk0, disk, ret>>

runVars == <<rtool, docs, orig, rpos, rpc, pending, attempt, fixed>>

vars == <<valVars, idxVars, patchVars, callVars, runVars>>

(***************************************************************************)
(* Bounds of the model.                                                    *)
(***************************************************************************)
MaxPlugins == 2      \* plugin directories in a multi-plugin tree
MaxNameLen == 2      \* length of the enumerated manifest names
MaxDescPad == 2      \* descriptions enumerated up to MIN_DESCRIPTION_LENGTH + MaxDescPad

(***************************************************************************)
(* Strings.                                                                *)
(***************************************************************************)
Lower == {"a","b","c","d","e","f","g","h","i","j","k","l","m",
          "n","o","p","q","r","s","t","u","v","w","x","y","z"}

Digit == {"0","1","2","3","4","5","6","7","8","9"}

\* s[i..j], empty when j < i
Slice(s, i, j) == IF j < i THEN <<>> ELSE SubSeq(s, i, j)

\* lit occurs in s at position i
MatchAt(s, i, lit) ==
    /\ i >= 1
    /\ i + Len(lit) - 1 <= Len(s)
    /\ \A k \in 1..Len(lit) : s[i + k - 1] = lit[k]

\* Python's `lit in s`
Contains(s, lit) == \E i \in 1..(Len(s) + 1) : MatchAt(s, i, lit)

\* Python's s.startswith(lit)
StartsWith(s, lit) == MatchAt(s, 1, lit)

\* s.find(lit, from) + 1: the first position >= from where lit occurs, 0 if none
Find(s, lit, from) ==
    LET hits == {i \in from..(Len(s) + 1) : MatchAt(s, i, lit)}
    IN  IF hits = {} THEN 0 ELSE CHOOSE i \in hits : \A j \in hits : i <= j

\* n copies of the character c
Repeat(c, n) == [i \in 1..n |-> c]

\* `$` of a pattern compiled without re.MULTILINE: the end of the string, or
\* just before a newline that ends the string
DollarAt(s, pos) == pos = Len(s) + 1 \/ (pos = Len(s) /\ s[pos] = "\n")

(***************************************************************************)
(* validate_plugins.py: configuration.                                     *)
(***************************************************************************)
MIN_DESCRIPTION_LENGTH == 20

VALID_CATEGORIES == {
    <<"t","r","a","i","n","i","n","g">>,
    <<"e","v","a","l","u","a","t","i","o","n">>,
    <<"o","p","t","i","m","i","z","a","t","i","o","n">>,
    <<"d","e","b","u","g","g","i","n","g">>,
    <<"a","r","c","h","i","t","e","c","t","u","r","e">>,
    <<"t","o","o","l","i","n","g">>,
    <<"c","i","-","c","d">>,
    <<"t","e","s","t","i","n","g">>}

REQUIRED_PLUGIN_FIELDS == {"name", "version", "description", "category", "date", "tags"}

\* sorted(REQUIRED_PLUGIN_FIELDS)
SortedRequiredFields == <<"category", "date", "description", "name", "tags", "version">>

(***************************************************************************)
(* JSON values of a manifest field: a string, a number, a list, or the key *)
(* absent from the object.                                                 *)
(***************************************************************************)
Str(s) == [t |-> "str", v |-> s]

Num == [t |-> "int", v |-> <<>>]

List(items) == [t |-> "list", v |-> items]

Absent == [t |-> "absent", v |-> <<>>]

(***************************************************************************)
(* validate_plugins.py: validate_plugin_json.                              *)
(***************************************************************************)
Err(kind, arg, n) == [kind |-> kind, arg |-> arg, n |-> n]

\* what a validation function hands back: its lists, or an exception
Returned(errors, warnings) == [raised |-> FALSE, errors |-> errors, warnings |-> warnings]

Raised == [raised |-> TRUE, errors |-> <<>>, warnings |-> <<>>]

\* variant of MissingFields that reports the first missing field only
MissingFieldsFirstOnly(data) ==
    LET all == SelectSeq(SortedRequiredFields,
                         LAMBDA f : f \in REQUIRED_PLUGIN_FIELDS /\ data[f].t = "absent")
    IN  IF all = <<>> THEN <<>> ELSE <<all[1]>>

\* REQUIRED_PLUGIN_FIELDS - set(data.keys()), sorted
MissingFields(data) ==
    SelectSeq(SortedRequiredFields,
              LAMBDA f : f \in REQUIRED_PLUGIN_FIELDS /\ data[f].t = "absent")

\* re.match(r"^[a-z0-9-]+$", name)
NameMatches(name) ==
    \E n \in 1..Len(name) :
        /\ \A i \in 1..n : name[i] \in Lower \cup Digit \cup {"-"}
        /\ DollarAt(name, n + 1)

\* variant of DateMatches that also wants a month 01..12 and a day 01..31
DateMatchesCalendar(date) ==
    /\ Len(date) >= 10
    /\ \A i \in {1, 2, 3, 4, 6, 7, 9, 10} : date[i] \in Digit
    /\ date[5] = "-"
    /\ date[8] = "-"
    /\ DollarAt(date, 11)
    /\ \/ date[6] = "0" /\ date[7] # "0"
       \/ date[6] = "1" /\ date[7] \in {"0", "1", "2"}
    /\ \/ date[9] = "0" /\ date[10] # "0"
       \/ date[9] \in {"1", "2"}
       \/ date[9] = "3" /\ date[10] \in {"0", "1"}

\* re.match(r"^\d{4}-\d{2}-\d{2}$", date)
DateMatches(date) ==
    /\ Len(date) >= 10
    /\ \A i \in {1, 2, 3, 4, 6, 7, 9, 10} : date[i] \in Digit
    /\ date[5] = "-"
    /\ date[8] = "-"
    /\ DollarAt(date, 11)

\* the statements of validate_plugin_json that raise on a value they cannot
\* handle: re.match on a non-string, len() of a number, an unhashable value
\* looked up in the set VALID_CATEGORIES
ChecksRaise(data) ==
    \/ data.name.t \in {"int", "list"}
    \/ data.description.t = "int"
    \/ data.category.t = "list"
    \/ data.date.t \in {"int", "list"}

NameErrors(data) ==
    IF data.name.t = "str" /\ ~NameMatches(data.name.v)
    THEN <<Err("Invalid name format", data.name.v, 0)>>
    ELSE <<>>

\* variant of DescriptionErrors with <= for <
DescriptionErrorsOffByOne(data) ==
    IF data.description.t \in {"str", "list"}
       /\ Len(data.description.v) <= MIN_DESCRIPTION_LENGTH
    THEN <<Err("Description too short", <<>>, Len(data.description.v))>>
    ELSE <<>>

DescriptionErrors(data) ==
    IF data.description.t \in {"str", "list"}
       /\ Len(data.description.v) < MIN_DESCRIPTION_LENGTH
    THEN <<Err("Description too short", <<>>, Len(data.description.v))>>
    ELSE <<>>

CategoryErrors(data) ==
    IF data.category.t # "absent"
       /\ ~(data.category.t = "str" /\ data.category.v \in VALID_CATEGORIES)
    THEN <<Err("Invalid category", data.category.v, 0)>>
    ELSE <<>>

DateErrors(data) ==
    IF data.date.t = "str" /\ ~DateMatches(data.date.v)
    THEN <<Err("Invalid date format", data.date.v, 0)>>
    ELSE <<>>

TagsErrors(data) ==
    IF data.tags.t \notin {"absent", "list"}
    THEN <<Err("tags must be a list", <<>>, 0)>>
    ELSE <<>>

\* variant of TagsWarnings that treats the empty list like any other list
TagsWarningsNever(data) ==
    IF data.tags.t = "list" /\ Len(data.tags.v) < 0
    THEN <<Err("No tags provided - reduces searchability", <<>>, 0)>>
    ELSE <<>>

TagsWarnings(data) ==
    IF data.tags.t = "list" /\ Len(data.tags.v) = 0
    THEN <<Err("No tags provided - reduces searchability", <<>>, 0)>>
    ELSE <<>>

MissingFieldsErrors(data) ==
    IF MissingFields(data) # <<>>
    THEN <<Err("Missing required fields", MissingFields(data), 0)>>
    ELSE <<>>

\* variant of validate_plugin_json that records the JSON error and goes on to
\* the field checks with the empty data
validate_plugin_json_NoEarlyReturn(manifest) ==
    CASE manifest.kind \in {"nodir", "missing"} ->
            Returned(<<Err("Missing .claude-plugin/plugin.json", <<>>, 0)>>, <<>>)
      [] manifest.kind = "unreadable" -> Raised
      [] manifest.kind = "badjson" ->
            Returned(<<Err("Invalid JSON in plugin.json", <<>>, 0)>>
                     \o MissingFieldsErrors(manifest.data), <<>>)
      [] manifest.kind = "nonobject" -> Raised
      [] OTHER ->
            IF ChecksRaise(manifest.data)
            THEN Raised
            ELSE Returned(MissingFieldsErrors(manifest.data)
                          \o NameErrors(manifest.data)
                          \o DescriptionErrors(manifest.data)
                          \o CategoryErrors(manifest.data)
                          \o DateErrors(manifest.data)
                          \o TagsErrors(manifest.data),
                          TagsWarnings(manifest.data))

\* manifest: [kind, data]; kind is "nodir" (no .claude-plugin directory),
\* "missing" (no plugin.json in it), "unreadable" (open() fails), "badjson"
\* (json.load raises JSONDecodeError), "nonobject" (JSON that is no object)
\* or "object"
validate_plugin_json(manifest) ==
    CASE manifest.kind \in {"nodir", "missing"} ->
            Returned(<<Err("Missing .claude-plugin/plugin.json", <<>>, 0)>>, <<>>)
      [] manifest.kind = "unreadable" -> Raised
      [] manifest.kind = "badjson" ->
            Returned(<<Err("Invalid JSON in plugin.json", <<>>, 0)>>, <<>>)
      [] manifest.kind = "nonobject" -> Raised
      [] OTHER ->
            IF ChecksRaise(manifest.data)
            THEN Raised
            ELSE Returned(MissingFieldsErrors(manifest.data)
                          \o NameErrors(manifest.data)
                          \o DescriptionErrors(manifest.data)
                          \o CategoryErrors(manifest.data)
                          \o DateErrors(manifest.data)
                          \o TagsErrors(manifest.data),
                          TagsWarnings(manifest.data))

(***************************************************************************)
(* Skill documents: the text of a SKILL.md.                                *)
(***************************************************************************)
NL == <<"\n">>

FrontmatterDelimiter == <<"-","-","-">>

HOverview == <<"#","#"," ","O","v","e","r","v","i","e","w">>

HWhenToUse == <<"#","#"," ","W","h","e","n"," ","t","o"," ","U","s","e">>

HVerifiedWorkflow ==
    <<"#","#"," ","V","e","r","i","f","i","e","d"," ","W","o","r","k","f","l","o","w">>

HFailedAttempts ==
    <<"#","#"," ","F","a","i","l","e","d"," ","A","t","t","e","m","p","t","s">>

HResults == <<"#","#"," ","R","e","s","u","l","t","s">>

HReferences == <<"#","#"," ","R","e","f","e","r","e","n","c","e","s">>

HWorkflow == <<"#","#"," ","W","o","r","k","f","l","o","w">>

Pipe == <<"|">>

HashHash == <<"#","#">>

\* s.split(sep)[0]: the text before the first sep, all of s when there is none
SplitFirst(s, sep) ==
    IF Find(s, sep, 1) = 0 THEN s ELSE Slice(s, 1, Find(s, sep, 1) - 1)

\* s.split(sep)[1], for an s that contains sep: the text between the first sep
\* and the next one (or the end)
SplitSecond(s, sep) ==
    LET from == Find(s, sep, 1) + Len(sep)
        next == Find(s, sep, from)
    IN  Slice(s, from, IF next = 0 THEN Len(s) ELSE next - 1)

(***************************************************************************)
(* validate_plugins.py: validate_skill_md.                                 *)
(***************************************************************************)
\* (section_marker, section_name) of required_sections, in order
required_sections == <<
    [marker |-> HOverview,         name |-> "Missing Overview table"],
    [marker |-> HWhenToUse,        name |-> "Missing When to Use section"],
    [marker |-> HVerifiedWorkflow, name |-> "Missing Verified Workflow section"],
    [marker |-> HFailedAttempts,   name |-> "Missing Failed Attempts section (REQUIRED)"],
    [marker |-> HResults,          name |-> "Missing Results & Parameters section"]>>

\* "Failed Attempts" in section_name
IsFailedAttemptsEntry(i) == required_sections[i].marker = HFailedAttempts

MissingSectionMessages(content, wantErrors) ==
    LET idx == SelectSeq(<<1, 2, 3, 4, 5>>,
                  LAMBDA i : /\ ~Contains(content, required_sections[i].marker)
                             /\ IsFailedAttemptsEntry(i) = wantErrors)
    IN  [k \in 1..Len(idx) |-> Err(required_sections[idx[k]].name, <<>>, 0)]

\* content.split("## Failed Attempts")[1].split("##")[0]
FailedSection(content) == SplitFirst(SplitSecond(content, HFailedAttempts), HashHash)

SkillContentErrors(content) ==
    (IF ~StartsWith(content, FrontmatterDelimiter)
     THEN <<Err("SKILL.md missing YAML frontmatter (must start with ---)", <<>>, 0)>>
     ELSE <<>>)
    \o MissingSectionMessages(content, TRUE)

SkillContentWarnings(content) ==
    MissingSectionMessages(content, FALSE)
    \o (IF Contains(content, HFailedAttempts) /\ ~Contains(FailedSection(content), Pipe)
        THEN <<Err("Failed Attempts section should contain a table", <<>>, 0)>>
        ELSE <<>>)

\* skills: [kind, content]; kind is "nodir" (no skills/ directory), "nofile"
\* (no skills/*/SKILL.md), "unreadable" (read_text raises) or "doc"
validate_skill_md(skills) ==
    CASE skills.kind = "nodir" ->
            Returned(<<Err("Missing skills/ directory", <<>>, 0)>>, <<>>)
      [] skills.kind = "nofile" ->
            Returned(<<Err("No SKILL.md found in skills/ subdirectories", <<>>, 0)>>, <<>>)
      [] skills.kind = "unreadable" ->
            Returned(<<Err("Failed to read SKILL.md", <<>>, 0)>>, <<>>)
      [] OTHER ->
            Returned(SkillContentErrors(skills.content), SkillContentWarnings(skills.content))

(***************************************************************************)
(* validate_plugins.py: validate_plugin, find_plugins.                     *)
(***************************************************************************)
\* a ValidationResult, or the exception that validate_plugin_json let through
validate_plugin(dir) ==
    LET j == validate_plugin_json(dir.manifest)
        s == validate_skill_md(dir.skills)
    IN  IF j.raised
        THEN [raised |-> TRUE, plugin_path |-> dir.path, is_valid |-> FALSE,
              errors |-> <<>>, warnings |-> <<>>]
        ELSE [raised |-> FALSE, plugin_path |-> dir.path,
              is_valid |-> (Len(j.errors \o s.errors) = 0),
              errors |-> j.errors \o s.errors,
              warnings |-> j.warnings \o s.warnings]

\* the "has plugin structure" test of the validator's find_plugins
LooksLikePlugin(dir) == dir.manifest.kind # "nodir" \/ dir.skills.kind # "nodir"

\* the entries of the tree that find_plugins keeps, in listing order
find_plugins(listed) ==
    SelectSeq(listed, LAMBDA d : d.isDir /\ ~d.hidden /\ LooksLikePlugin(d))

(***************************************************************************)
(* validate_plugins.py: ValidationResult.__str__ and main.                 *)
(***************************************************************************)
OutLine(kind, plugin, n) == [kind |-> kind, plugin |-> plugin, n |-> n]

\* variant of ValidationResultStr that prints the warnings before the errors
ValidationResultStrWarningsFirst(r, i) ==
    <<OutLine(IF r.is_valid THEN "PASS" ELSE "FAIL", i, 0)>>
    \o (IF Len(r.warnings) > 0
        THEN <<OutLine("  Warnings:", i, 0)>>
             \o [k \in 1..Len(r.warnings) |-> OutLine("    - warning", i, k)]
        ELSE <<>>)
    \o (IF Len(r.errors) > 0
        THEN <<OutLine("  Errors:", i, 0)>>
             \o [k \in 1..Len(r.errors) |-> OutLine("    - error", i, k)]
        ELSE <<>>)

\* the lines of str(result), for the result of the i-th plugin
ValidationResultStr(r, i) ==
    <<OutLine(IF r.is_valid THEN "PASS" ELSE "FAIL", i, 0)>>
    \o (IF Len(r.errors) > 0
        THEN <<OutLine("  Errors:", i, 0)>>
             \o [k \in 1..Len(r.errors) |-> OutLine("    - error", i, k)]
        ELSE <<>>)
    \o (IF Len(r.warnings) > 0
        THEN <<OutLine("  Warnings:", i, 0)>>
             \o [k \in 1..Len(r.warnings) |-> OutLine("    - warning", i, k)]
        ELSE <<>>)

\* variant of Passed that counts only the results without any message
PassedNoWarnings(rs) ==
    Len(SelectSeq(rs, LAMBDA r : r.is_valid /\ r.warnings = <<>>))

\* sum(1 for r in results if r.is_valid)
Passed(rs) == Len(SelectSeq(rs, LAMBDA r : r.is_valid))

\* main, up to the call of validate_plugin on the first plugin
MainStart ==
    /\ pc = "start"
    /\ IF ~rootExists
       THEN /\ out' = <<OutLine("Plugins directory not found", 0, 0)>>
            /\ exitCode' = 1
            /\ pc' = "done"
            /\ plugins' = <<>>
       ELSE IF find_plugins(tree) = <<>>
       THEN /\ out' = <<OutLine("No plugins found", 0, 0),
                        OutLine("This is OK if the marketplace is empty.", 0, 0)>>
            /\ exitCode' = 0
            /\ pc' = "done"
            /\ plugins' = <<>>
       ELSE /\ plugins' = find_plugins(tree)
            /\ pc' = "validate"
            /\ UNCHANGED <<out, exitCode>>
    /\ UNCHANGED <<rootExists, tree, results, printed>>
    /\ UNCHANGED <<idxVars, patchVars, callVars, runVars>>

\* one element of [validate_plugin(p) for p in plugins]; an exception leaves
\* main and ends the process with a traceback and exit code 1
ValidateNext ==
    /\ pc = "validate"
    /\ Len(results) < Len(plugins)
    /\ LET r == validate_plugin(plugins[Len(results) + 1])
       IN  IF r.raised
           THEN /\ pc' = "crashed"
                /\ exitCode' = 1
                /\ UNCHANGED results
           ELSE /\ results' = Append(results, r)
                /\ UNCHANGED <<pc, exitCode>>
    /\ UNCHANGED <<rootExists, tree, plugins, printed, out>>
    /\ UNCHANGED <<idxVars, patchVars, callVars, runVars>>

\* the header with the counts
PrintSummary ==
    /\ pc = "validate"
    /\ Len(results) = Len(plugins)
    /\ out' = out \o <<OutLine("====", 0, 0),
                       OutLine("PLUGIN VALIDATION", 0, 0),
                       OutLine("====", 0, 0),
                       OutLine("Total plugins", 0, Len(results)),
                       OutLine("Passed", 0, Passed(results)),
                       OutLine("Failed", 0, Len(results) - Passed(results)),
                       OutLine("====", 0, 0)>>
    /\ pc' = "results"
    /\ UNCHANGED <<rootExists, tree, plugins, results, printed, exitCode>>
    /\ UNCHANGED <<idxVars, patchVars, callVars, runVars>>

\* one iteration of `for result in results: print(result)`
PrintResult ==
    /\ pc = "results"
    /\ printed < Len(results)
    /\ out' = out \o ValidationResultStr(results[printed + 1], printed + 1)
    /\ printed' = printed + 1
    /\ UNCHANGED <<rootExists, tree, pc, plugins, results, exitCode>>
    /\ UNCHANGED <<idxVars, patchVars, callVars, runVars>>

\* the closing verdict and the return value
PrintVerdict ==
    /\ pc = "results"
    /\ printed = Len(results)
    /\ LET failed == Len(results) - Passed(results)
       IN  /\ out' = out \o <<OutLine("====", 0, 0),
                              IF failed = 0
                              THEN OutLine("ALL VALIDATIONS PASSED", 0, 0)
                              ELSE OutLine("VALIDATION FAILED", 0, failed),
                              OutLine("====", 0, 0)>>
           /\ exitCode' = IF failed > 0 THEN 1 ELSE 0
    /\ pc' = "done"
    /\ UNCHANGED <<rootExists, tree, plugins, results, printed>>
    /\ UNCHANGED <<idxVars, patchVars, callVars, runVars>>

(***************************************************************************)
(* Inputs of the validator: manifests, skill documents, plugin trees.      *)
(***************************************************************************)
RECURSIVE JoinLines(_)
\* the text whose lines are ls, each ended by a newline
JoinLines(ls) == IF ls = <<>> THEN <<>> ELSE Head(ls) \o NL \o JoinLines(Tail(ls))

TitleLine == <<"#"," ","T">>

DateLine == <<"d","a","t","e",":"," ","2","0","2","4","-","0","1","-","1","5">>

ProseLine == <<"p","r","o","s","e">>

TableRowLine == <<"|"," ","a"," ","|"," ","b"," ","|">>

SubAttemptLine ==
    <<"#","#","#"," ","A","t","t","e","m","p","t"," ","1",":"," ","W","r","o","n","g"," ","c","o","n","f","i","g">>

\* a document that passes every check of validate_skill_md
DocComplete ==
    JoinLines(<<FrontmatterDelimiter, DateLine, FrontmatterDelimiter, TitleLine,
                HOverview, TableRowLine, HWhenToUse, ProseLine,
                HVerifiedWorkflow, ProseLine, HFailedAttempts, TableRowLine,
                HResults, ProseLine>>)

\* no frontmatter, no Overview, a Failed Attempts section without a table
DocNoTable ==
    JoinLines(<<TitleLine, HWhenToUse, ProseLine, HVerifiedWorkflow, ProseLine,
                HFailedAttempts, SubAttemptLine, ProseLine, HResults, ProseLine>>)

\* frontmatter and an Overview, nothing else
DocNoFailedAttempts ==
    JoinLines(<<FrontmatterDelimiter, DateLine, FrontmatterDelimiter, TitleLine,
                HOverview, TableRowLine>>)

NameAlphabet == {"a", "9", "-", "A", "_", " ", "\n"}

\* every string over alphabet of length at most n
StringsUpTo(alphabet, n) == UNION {[1..k -> alphabet] : k \in 0..n}

NameDemoTool == <<"D","e","m","o","_","T","o","o","l">>

NameGood == <<"d","e","m","o","-","1">>

DescShort == <<"s","h","o","r","t">>

UseWhenMarker == <<"U","s","e"," ","w","h","e","n",":">>

CatBogus == <<"b","o","g","u","s">>

CatTooling == <<"t","o","o","l","i","n","g">>

DateGood == <<"2","0","2","4","-","0","1","-","1","5">>

DateBadCalendar == <<"2","0","2","4","-","1","3","-","4","0">>

VersionOne == <<"1",".","0",".","0">>

TagX == <<"x">>

MaxDescLen == MIN_DESCRIPTION_LENGTH + MaxDescPad

Names == StringsUpTo(NameAlphabet, MaxNameLen) \cup {NameDemoTool, NameGood}

\* descriptions of every length up to MaxDescLen, with and without the
\* "Use when:" marker of the sibling checker
Descriptions ==
    {Repeat("x", n) : n \in 0..MaxDescLen}
    \cup {UseWhenMarker \o Repeat("x", n) : n \in 0..(MaxDescLen - Len(UseWhenMarker))}
    \cup {DescShort}

Dates == {DateGood, DateBadCalendar, DateGood \o NL, DateGood \o <<"x">>,
          <<"2","0","2","4","-","1","-","5">>,
          <<"2","0","2","4","/","0","1","/","1","5">>,
          <<"1","5","-","0","1","-","2","0","2","4">>, <<>>}

\* the manifest of the spec's first concrete scenario
ScenarioData ==
    [name |-> Str(NameDemoTool), version |-> Str(VersionOne),
     description |-> Str(DescShort), category |-> Str(CatBogus),
     date |-> Str(DateBadCalendar), tags |-> Str(TagX)]

\* a manifest that passes every check without a warning
GoodData ==
    [name |-> Str(NameGood), version |-> Str(VersionOne),
     description |-> Str(Repeat("x", MIN_DESCRIPTION_LENGTH)), category |-> Str(CatTooling),
     date |-> Str(DateGood), tags |-> List(<<TagX>>)]

AbsentData == [f \in REQUIRED_PLUGIN_FIELDS |-> Absent]

\* each field absent, as in GoodData, or as in ScenarioData
GridData ==
    {d \in [REQUIRED_PLUGIN_FIELDS -> {"absent", "good", "scenario"}] : TRUE}

FromGrid(g) ==
    [f \in REQUIRED_PLUGIN_FIELDS |->
        IF g[f] = "absent" THEN Absent
        ELSE IF g[f] = "good" THEN GoodData[f] ELSE ScenarioData[f]]

Backgrounds == {GoodData, ScenarioData, AbsentData}

\* one field swept over its values, the others as in a background
SweepData ==
    {[b EXCEPT !.name = Str(n)] : b \in Backgrounds, n \in Names}
    \cup {[b EXCEPT !.description = Str(d)] : b \in Backgrounds, d \in Descriptions}
    \cup {[b EXCEPT !.date = Str(d)] : b \in Backgrounds, d \in Dates}
    \cup {[b EXCEPT ![f] = v] : b \in Backgrounds, f \in REQUIRED_PLUGIN_FIELDS,
                                v \in {Num, List(<<>>), List(<<TagX>>)}}

ManifestData == {FromGrid(g) : g \in GridData} \cup SweepData

ObjectManifest(data) == [kind |-> "object", data |-> data]

OtherManifest(kind) == [kind |-> kind, data |-> AbsentData]

SkillDoc(content) == [kind |-> "doc", content |-> content]

NoSkill(kind) == [kind |-> kind, content |-> <<>>]

PluginDir(manifest, skills) ==
    [path |-> 0, isDir |-> TRUE, hidden |-> FALSE, manifest |-> manifest, skills |-> skills]

MaxDocLines == 3     \* lines behind the frontmatter of a generated skill document

\* a `###` heading and a paragraph that hold the text of the `##` heading
HSubFailedAttempts == <<"#","#","#"," ","F","a","i","l","e","d"," ","A","t","t","e","m","p","t","s">>

InlineFailedAttempts == <<"s","e","e"," ","#","#"," ","F","a","i","l","e","d"," ","A","t","t","e","m","p","t","s">>

\* frontmatter and a Failed Attempts section without a table, nothing else
DocWarningsOnly ==
    JoinLines(<<FrontmatterDelimiter, DateLine, FrontmatterDelimiter, HFailedAttempts, ProseLine>>)

HeadingVocabulary ==
    {HFailedAttempts, HSubFailedAttempts, InlineFailedAttempts, SubAttemptLine,
     TableRowLine, HResults, HOverview, ProseLine}

\* the documents with a frontmatter and up to MaxDocLines lines of the vocabulary
SectionDocs ==
    {JoinLines(<<FrontmatterDelimiter, DateLine, FrontmatterDelimiter>> \o body) :
        body \in UNION {[1..n -> HeadingVocabulary] : n \in 0..MaxDocLines}}

\* the plugin directories of the multi-plugin trees
CuratedManifests ==
    {OtherManifest(k) : k \in {"nodir", "missing", "unreadable", "badjson", "nonobject"}}
    \cup {ObjectManifest(GoodData), ObjectManifest(ScenarioData),
          ObjectManifest([GoodData EXCEPT !.name = Num]),
          ObjectManifest([GoodData EXCEPT !.tags = List(<<>>)])}

CuratedSkills ==
    {NoSkill(k) : k \in {"nodir", "nofile", "unreadable"}}
    \cup {SkillDoc(DocComplete), SkillDoc(DocNoTable), SkillDoc(DocNoFailedAttempts),
          SkillDoc(DocWarningsOnly)}

CuratedDirs ==
    {PluginDir(m, s) : m \in CuratedManifests, s \in CuratedSkills}
    \cup {[PluginDir(ObjectManifest(GoodData), SkillDoc(DocComplete)) EXCEPT !.hidden = TRUE],
          [PluginDir(ObjectManifest(GoodData), SkillDoc(DocComplete)) EXCEPT !.isDir = FALSE]}

\* the entries in listing order, each with its position as its path
Listing(f) == [i \in DOMAIN f |-> [f[i] EXCEPT !.path = i]]

Trees ==
    {Listing(f) : f \in UNION {[1..n -> CuratedDirs] : n \in 0..MaxPlugins}}
    \cup {Listing(<<PluginDir(ObjectManifest(d), s)>>) :
            d \in ManifestData, s \in {SkillDoc(DocComplete), NoSkill("nodir")}}
    \cup {Listing(<<PluginDir(ObjectManifest(GoodData), SkillDoc(c))>>) : c \in SectionDocs}

ValInit ==
    /\ rootExists \in BOOLEAN
    /\ tree \in (IF rootExists THEN Trees ELSE {<<>>})
    /\ pc = "start"
    /\ plugins = <<>>
    /\ results = <<>>
    /\ printed = 0
    /\ out = <<>>
    /\ exitCode = -1

\* the validator does not run
ValOff ==
    /\ rootExists = FALSE
    /\ tree = <<>>
    /\ pc = "off"
    /\ plugins = <<>>
    /\ results = <<>>
    /\ printed = 0
    /\ out = <<>>
    /\ exitCode = -1

ValNext == MainStart \/ ValidateNext \/ PrintSummary \/ PrintResult \/ PrintVerdict

(***************************************************************************)
(* Properties of the validator.                                            *)
(***************************************************************************)
\* the kinds of a list of messages, in order
Kinds(msgs) == [k \in 1..Len(msgs) |-> msgs[k].kind]

\* the messages that validate_plugin_json produces
ManifestKinds == {
    "Missing .claude-plugin/plugin.json", "Invalid JSON in plugin.json",
    "Missing required fields", "Invalid name format", "Description too short",
    "Invalid category", "Invalid date format", "tags must be a list",
    "No tags provided - reduces searchability"}

\* the part of a message list that comes from the manifest checks, and the rest
ManifestPart(msgs) == SelectSeq(msgs, LAMBDA e : e.kind \in ManifestKinds)

SkillPart(msgs) == SelectSeq(msgs, LAMBDA e : e.kind \notin ManifestKinds)

OfKind(msgs, kind) == SelectSeq(msgs, LAMBDA e : e.kind = kind)

SameValue(a, b) == a.t = b.t /\ a.v = b.v

IsScenarioManifest(m) ==
    m.kind = "object" /\ \A f \in REQUIRED_PLUGIN_FIELDS : SameValue(m.data[f], ScenarioData[f])

\* the plugins validated so far: results[i] is the result of plugins[i]
Validated == 1..Len(results)

\* C1 as stated: the scenario manifest yields exactly the five errors invalid
\* name format, description too short, invalid category, invalid date format,
\* tags must be a list, and the plugin is invalid.
C1_FiveErrors ==
    \A i \in Validated :
        IsScenarioManifest(plugins[i].manifest) =>
            /\ Kinds(ManifestPart(results[i].errors)) =
                   <<"Invalid name format", "Description too short", "Invalid category",
                     "Invalid date format", "tags must be a list">>
            /\ ~results[i].is_valid

\* C1 as amended: the scenario manifest yields exactly four errors (invalid
\* name format, description too short, invalid category, tags must be a
\* list) and no date error, since 2024-13-40 has the form YYYY-MM-DD; the
\* plugin is invalid.
C1_FourErrors ==
    \A i \in Validated :
        IsScenarioManifest(plugins[i].manifest) =>
            /\ Kinds(ManifestPart(results[i].errors)) =
                   <<"Invalid name format", "Description too short", "Invalid category",
                     "tags must be a list">>
            /\ ManifestPart(results[i].warnings) = <<>>
            /\ ~results[i].is_valid

C1_Witness ==
    \E i \in Validated :
        /\ IsScenarioManifest(plugins[i].manifest)
        /\ plugins[i].skills.kind = "doc"
        /\ Len(results[i].errors) = 4

\* C6 as stated: a run over an existing root ends with exactly one result per
\* discovered plugin, and no exception leaves the per-plugin boundary.
C6_Isolation ==
    /\ pc # "crashed"
    /\ (pc = "done" /\ rootExists) => Len(results) = Len(find_plugins(tree))

LoadFailed(m) == m.kind \in {"nodir", "missing", "badjson"}

LoadError(m) ==
    IF m.kind = "badjson" THEN "Invalid JSON in plugin.json"
    ELSE "Missing .claude-plugin/plugin.json"

SkillMissing(s) == s.kind \in {"nodir", "nofile"}

SkillMissingError(s) ==
    IF s.kind = "nodir" THEN "Missing skills/ directory"
    ELSE "No SKILL.md found in skills/ subdirectories"

\* C7 as stated: after a manifest load failure the result holds the load
\* error and nothing from any later check; a missing skills directory or
\* SKILL.md ends the skill-document checks with that single error.
C7_ShortCircuitAll ==
    \A i \in Validated :
        /\ LoadFailed(plugins[i].manifest) =>
              /\ Kinds(results[i].errors) = <<LoadError(plugins[i].manifest)>>
              /\ results[i].warnings = <<>>
        /\ SkillMissing(plugins[i].skills) =>
              /\ Kinds(SkillPart(results[i].errors)) = <<SkillMissingError(plugins[i].skills)>>
              /\ SkillPart(results[i].warnings) = <<>>

\* C7 as amended: a manifest load failure ends the manifest checks only: the
\* manifest contributes the load error and nothing else, and the
\* skill-document checks still run and add their own errors and warnings
\* after it; a missing skills directory or SKILL.md ends the skill-document
\* checks with that single error.
C7_ShortCircuitPerFile ==
    \A i \in Validated :
        /\ LoadFailed(plugins[i].manifest) =>
              /\ Kinds(ManifestPart(results[i].errors)) = <<LoadError(plugins[i].manifest)>>
              /\ ManifestPart(results[i].warnings) = <<>>
              /\ results[i].errors[1].kind = LoadError(plugins[i].manifest)
              /\ plugins[i].skills.kind # "doc" => Len(SkillPart(results[i].errors)) = 1
              /\ (plugins[i].skills.kind = "doc" /\ plugins[i].skills.content = DocNoTable) =>
                    /\ Len(SkillPart(results[i].errors)) = 1
                    /\ Len(SkillPart(results[i].warnings)) = 2
        /\ SkillMissing(plugins[i].skills) =>
              /\ Kinds(SkillPart(results[i].errors)) = <<SkillMissingError(plugins[i].skills)>>
              /\ SkillPart(results[i].warnings) = <<>>

C7_Witness ==
    \E i \in Validated :
        /\ plugins[i].manifest.kind = "badjson"
        /\ plugins[i].skills.kind = "nodir"
        /\ Len(results[i].errors) = 2

\* C8: a manifest object whose checks complete and that lacks a non-empty set
\* of required fields gets exactly one "Missing required fields" error, which
\* names each missing field once and no present field, and is invalid.
C8_MissingFields ==
    \A i \in Validated :
        LET data == plugins[i].manifest.data
            absent == {f \in REQUIRED_PLUGIN_FIELDS : data[f].t = "absent"}
            hits == OfKind(results[i].errors, "Missing required fields")
        IN  plugins[i].manifest.kind = "object" =>
                IF absent = {}
                THEN hits = <<>>
                ELSE /\ Len(hits) = 1
                     /\ {hits[1].arg[k] : k \in 1..Len(hits[1].arg)} = absent
                     /\ Len(hits[1].arg) = Cardinality(absent)
                     /\ ~results[i].is_valid

C8_Witness ==
    \E i \in Validated :
        /\ plugins[i].manifest.kind = "object"
        /\ plugins[i].manifest.data.name.t = "str"
        /\ plugins[i].manifest.data.tags.t = "absent"
        /\ plugins[i].manifest.data.date.t = "absent"
        /\ Len(OfKind(results[i].errors, "Missing required fields")) = 1

NameChars == Lower \cup Digit \cup {"-"}

\* C9 as stated: a name gets the name-format error iff it is empty or has a
\* character outside [a-z0-9-] (a trailing newline included).
C9_NameFormat ==
    \A i \in Validated :
        LET name == plugins[i].manifest.data.name
        IN  (plugins[i].manifest.kind = "object" /\ name.t = "str") =>
                ((name.v = <<>> \/ \E k \in 1..Len(name.v) : name.v[k] \notin NameChars)
                 <=> OfKind(results[i].errors, "Invalid name format") # <<>>)

\* C10: the description-length check fails exactly when the description has
\* fewer than MIN_DESCRIPTION_LENGTH characters, whether or not the
\* description holds the "Use when:" marker, and reports the actual length.
C10_DescriptionLength ==
    \A i \in Validated :
        LET desc == plugins[i].manifest.data.description
            hits == OfKind(results[i].errors, "Description too short")
        IN  (plugins[i].manifest.kind = "object" /\ desc.t = "str") =>
                IF Len(desc.v) < MIN_DESCRIPTION_LENGTH
                THEN Len(hits) = 1 /\ hits[1].n = Len(desc.v) /\ ~results[i].is_valid
                ELSE hits = <<>>

C10_Witness ==
    \E i \in Validated :
        LET desc == plugins[i].manifest.data.description
        IN  /\ plugins[i].manifest.kind = "object"
            /\ desc.t = "str"
            /\ Len(desc.v) = MIN_DESCRIPTION_LENGTH
            /\ ~Contains(desc.v, UseWhenMarker)
            /\ results[i].is_valid

\* the manifest has every required field with a valid value, and tags = []
IsValidManifestEmptyTags(m) ==
    /\ m.kind = "object"
    /\ \A f \in REQUIRED_PLUGIN_FIELDS \ {"tags"} : SameValue(m.data[f], GoodData[f])
    /\ m.data.tags.t = "list"
    /\ m.data.tags.v = <<>>

\* C11: for a manifest with all required fields valid and tags equal to the
\* empty list, the manifest checks produce no error and exactly one warning,
\* the "reduces searchability" one, and the plugin is valid unless its skill
\* document has errors of its own.
C11_EmptyTagsWarns ==
    \A i \in Validated :
        IsValidManifestEmptyTags(plugins[i].manifest) =>
            /\ ManifestPart(results[i].errors) = <<>>
            /\ Kinds(ManifestPart(results[i].warnings))
                   = <<"No tags provided - reduces searchability">>
            /\ results[i].is_valid = (SkillPart(results[i].errors) = <<>>)

C11_Witness ==
    \E i \in Validated :
        /\ IsValidManifestEmptyTags(plugins[i].manifest)
        /\ plugins[i].skills = SkillDoc(DocComplete)
        /\ results[i].is_valid
        /\ results[i].errors = <<>>
        /\ Len(results[i].warnings) = 1

\* the plugins whose result is not valid
InvalidPlugins == {i \in Validated : ~results[i].is_valid}

\* the number printed on the one line of that kind
Count(kind) == OfKind(out, kind)[1].n

\* C12: in a run over an existing root a plugin is valid iff it has no error,
\* whatever its warnings; the printed counts satisfy passed + failed = total
\* with failed the number of invalid plugins; and the exit code is nonzero iff
\* some plugin is invalid (a run that a plugin makes raise ends nonzero too).
C12_Verdict ==
    rootExists =>
        /\ \A i \in Validated : results[i].is_valid <=> (results[i].errors = <<>>)
        /\ (pc \in {"results", "done"} /\ plugins # <<>>) =>
                /\ \A kind \in {"Total plugins", "Passed", "Failed"} :
                       Len(OfKind(out, kind)) = 1
                /\ Count("Total plugins") = Len(plugins)
                /\ Count("Failed") = Cardinality(InvalidPlugins)
                /\ Count("Passed") + Count("Failed") = Count("Total plugins")
        /\ pc = "done" => (exitCode # 0 <=> InvalidPlugins # {})
        /\ pc = "crashed" => exitCode # 0

C12_Witness ==
    /\ rootExists
    /\ pc = "done"
    /\ exitCode = 1
    /\ Count("Passed") = 1
    /\ Count("Failed") = 1
    /\ \E i \in Validated : results[i].is_valid /\ Len(results[i].warnings) > 1
    /\ \E i \in Validated : ~results[i].is_valid /\ results[i].warnings = <<>>

\* the lines of the aggregate summary that carry a count
CountKinds == {"Total plugins", "Passed", "Failed"}

\* the place of a line inside a per-plugin block
BlockRank(kind) ==
    CASE kind \in {"PASS", "FAIL"} -> 0
      [] kind = "  Errors:" -> 1
      [] kind = "    - error" -> 2
      [] kind = "  Warnings:" -> 3
      [] OTHER -> 4

\* C16 as stated: at every moment of a run the output so far has each
\* per-plugin block in the order status line, errors, warnings, and no line
\* with a total/passed/failed count stands before a line of a per-plugin block.
C16_BlocksBeforeSummary ==
    \A k, l \in 1..Len(out) :
        /\ (out[k].kind \in CountKinds /\ out[l].plugin # 0) => l < k
        /\ (k < l /\ out[k].plugin # 0 /\ out[l].plugin = out[k].plugin) =>
               BlockRank(out[k].kind) <= BlockRank(out[l].kind)

VerdictKinds == {"ALL VALIDATIONS PASSED", "VALIDATION FAILED"}

\* C16, amended: the header with the total/passed/failed counts is printed
\* first, then the per-plugin blocks in the order of the results, each as
\* status line, errors, warnings, and behind the last block the verdict line.
C16_SummaryThenBlocks ==
    /\ \A k, l \in 1..Len(out) :
          /\ (out[k].kind \in CountKinds /\ out[l].plugin # 0) => k < l
          /\ (out[k].kind \in VerdictKinds /\ out[l].plugin # 0) => l < k
          /\ (k < l /\ out[k].plugin # 0 /\ out[l].plugin # 0) =>
                 out[k].plugin <= out[l].plugin
          /\ (k < l /\ out[k].plugin # 0 /\ out[l].plugin = out[k].plugin) =>
                 BlockRank(out[k].kind) <= BlockRank(out[l].kind)
    /\ (pc = "done" /\ plugins # <<>>) =>
          /\ \A kind \in CountKinds : Len(OfKind(out, kind)) = 1
          /\ \A i \in Validated :
                Len(SelectSeq(out, LAMBDA o : o.plugin = i /\ BlockRank(o.kind) = 0)) = 1
          /\ Len(SelectSeq(out, LAMBDA o : o.kind \in VerdictKinds)) = 1

C16_Witness ==
    /\ pc = "done"
    /\ Len(results) = 2
    /\ \E i \in Validated : results[i].errors # <<>> /\ results[i].warnings # <<>>
    /\ Len(OfKind(out, "Total plugins")) = 1
    /\ Len(OfKind(out, "    - warning")) > 0
    /\ Len(OfKind(out, "    - error")) > 0

(***************************************************************************)
(* generate_marketplace.py: the index builder.                             *)
(***************************************************************************)
MaxRuns == 2         \* runs of the index builder over the unchanged tree

\* the printable ASCII characters in code-point order, from 32
CodePoints == <<
    " ","!","\"","#","$","%","&","'","(",")","*","+",",","-",".","/",
    "0","1","2","3","4","5","6","7","8","9",":",";","<","=",">","?",
    "@","A","B","C","D","E","F","G","H","I","J","K","L","M","N","O",
    "P","Q","R","S","T","U","V","W","X","Y","Z","[","\\","]","^","_",
    "<backtick>","a","b","c","d","e","f","g","h","i","j","k","l","m","n","o",
    "p","q","r","s","t","u","v","w","x","y","z","{","|","}","~">>

\* ord(c)
Ord(c) == 31 + CHOOSE i \in 1..Len(CodePoints) : CodePoints[i] = c

\* a < b on Python strings
StrLess(a, b) ==
    \E k \in 1..(Len(b)) :
        /\ k <= Len(a) + 1
        /\ \A i \in 1..(k - 1) : a[i] = b[i]
        /\ k = Len(a) + 1 \/ Ord(a[k]) < Ord(b[k])

\* (x["category"], x["name"]) < (y["category"], y["name"])
KeyLess(x, y) ==
    \/ StrLess(x.category, y.category)
    \/ x.category = y.category /\ StrLess(x.name, y.name)

\* e put into the sorted list es behind every element that is not greater
InsertSorted(es, e) ==
    LET k == Len(SelectSeq(es, LAMBDA x : ~KeyLess(e, x)))
    IN  Slice(es, 1, k) \o <<e>> \o Slice(es, k + 1, Len(es))

RECURSIVE SortEntries(_)
\* plugin_entries.sort(key=...): list.sort is stable
SortEntries(es) ==
    IF es = <<>> THEN <<>>
    ELSE InsertSorted(SortEntries(Slice(es, 1, Len(es) - 1)), es[Len(es)])

\* load_plugin_metadata: None, the metadata, or an exception. An unreadable
\* plugin.json raises in open(); JSON that is no object raises TypeError at
\* the category lookup or assignment.
load_plugin_metadata(dir) ==
    CASE dir.manifest.kind \in {"nodir", "missing"} ->
            [raised |-> FALSE, none |-> TRUE, data |-> dir.manifest.data]
      [] dir.manifest.kind = "badjson" ->
            [raised |-> FALSE, none |-> TRUE, data |-> dir.manifest.data]
      [] dir.manifest.kind \in {"unreadable", "nonobject"} ->
            [raised |-> TRUE, none |-> FALSE, data |-> dir.manifest.data]
      [] OTHER ->
            [raised |-> FALSE, none |-> FALSE,
             data |-> IF dir.manifest.data.category.t = "absent"
                      THEN [dir.manifest.data EXCEPT !.category = Str(dir.cat)]
                      ELSE dir.manifest.data]

VersionDefault == <<"1",".","0",".","0">>

\* the index entry of generate_marketplace for a loaded plugin
IndexEntry(dir, data) ==
    [name |-> IF data.name.t = "absent" THEN dir.dir ELSE data.name.v,
     description |-> IF data.description.t = "absent" THEN <<>> ELSE data.description.v,
     version |-> IF data.version.t = "absent" THEN VersionDefault ELSE data.version.v,
     source |-> <<".", "/">> \o dir.root \o <<"/">> \o dir.cat \o <<"/">> \o dir.dir,
     category |-> data.category.v,
     tags |-> IF data.tags.t = "absent" THEN <<>> ELSE data.tags.v]

\* the plugin directories the index builder's find_plugins keeps
IdxDiscovered(dirs) ==
    {d \in dirs : ~d.catHidden /\ d.isDir /\ ~d.hidden
                  /\ d.manifest.kind \notin {"nodir", "missing"}}

\* the orders in which iterdir() can hand out the directories: the category
\* directories in any order, the plugins of a category together in any order
ListingOrders(dirs) ==
    {f \in [1..Cardinality(dirs) -> dirs] :
        /\ \A i, j \in DOMAIN f : i # j => f[i] # f[j]
        /\ \A i, j, k \in DOMAIN f :
              (i < j /\ j < k /\ f[i].cat = f[k].cat) => f[j].cat = f[i].cat}

NoEntry ==
    [name |-> <<>>, description |-> <<>>, version |-> <<>>, source |-> <<>>,
     category |-> <<>>, tags |-> <<>>]

Chunk(tok, entry) == [tok |-> tok, entry |-> entry]

\* the chunks json.dump(marketplace, f, indent=2) writes, in order
Serialize(pluginsArray) ==
    <<Chunk("{ name, owner, description, version, plugins: [", NoEntry)>>
    \o [i \in 1..Len(pluginsArray) |-> Chunk("entry", pluginsArray[i])]
    \o <<Chunk("] }", NoEntry)>>

\* main up to the loop of generate_marketplace: the root check and find_plugins
IdxStart ==
    /\ ipc = "start"
    /\ IF ~idxRootExists
       THEN /\ ipc' = "noroot"
            /\ UNCHANGED listing
       ELSE /\ listing' \in ListingOrders(IdxDiscovered(idxTree))
            /\ ipc' = "load"
    /\ UNCHANGED <<idxRootExists, idxTree, run, loaded, entries, marketplace,
                   outFile, prevFile, firstPlugins>>
    /\ UNCHANGED <<valVars, patchVars, callVars, runVars>>

\* one iteration of `for plugin_path in plugins`
IdxLoad ==
    /\ ipc = "load"
    /\ loaded < Len(listing)
    /\ LET dir == listing[loaded + 1]
           m == load_plugin_metadata(dir)
       IN  IF m.raised
           THEN /\ ipc' = "crashed"
                /\ UNCHANGED <<loaded, entries>>
           ELSE /\ loaded' = loaded + 1
                /\ entries' = IF m.none THEN entries
                              ELSE Append(entries, IndexEntry(dir, m.data))
                /\ UNCHANGED ipc
    /\ UNCHANGED <<idxRootExists, idxTree, run, listing, marketplace,
                   outFile, prevFile, firstPlugins>>
    /\ UNCHANGED <<valVars, patchVars, callVars, runVars>>

\* the sort and the marketplace dict
IdxSort ==
    /\ ipc = "load"
    /\ loaded = Len(listing)
    /\ marketplace' = SortEntries(entries)
    /\ ipc' = "open"
    /\ UNCHANGED <<idxRootExists, idxTree, run, listing, loaded, entries,
                   outFile, prevFile, firstPlugins>>
    /\ UNCHANGED <<valVars, patchVars, callVars, runVars>>

\* open(output_file, "w") truncates the file
IdxOpen ==
    /\ ipc = "open"
    /\ prevFile' = outFile
    /\ outFile' = <<>>
    /\ ipc' = "write"
    /\ UNCHANGED <<idxRootExists, idxTree, run, listing, loaded, entries, marketplace,
                   firstPlugins>>
    /\ UNCHANGED <<valVars, patchVars, callVars, runVars>>

\* json.dump hands the next chunk to the file
IdxWrite ==
    /\ ipc = "write"
    /\ Len(outFile) < Len(Serialize(marketplace))
    /\ outFile' = Append(outFile, Serialize(marketplace)[Len(outFile) + 1])
    /\ UNCHANGED <<idxRootExists, idxTree, ipc, run, listing, loaded, entries, marketplace,
                   prevFile, firstPlugins>>
    /\ UNCHANGED <<valVars, patchVars, callVars, runVars>>

\* the with block ends, main prints and returns 0
IdxClose ==
    /\ ipc = "write"
    /\ Len(outFile) = Len(Serialize(marketplace))
    /\ ipc' = "done"
    /\ firstPlugins' = IF run = 1 THEN marketplace ELSE firstPlugins
    /\ UNCHANGED <<idxRootExists, idxTree, run, listing, loaded, entries, marketplace,
                   outFile, prevFile>>
    /\ UNCHANGED <<valVars, patchVars, callVars, runVars>>

\* the write fails (OSError from write) or the process is interrupted between
\* open() and the end of the with block
IdxInterrupt ==
    /\ ipc = "write"
    /\ ipc' = "interrupted"
    /\ UNCHANGED <<idxRootExists, idxTree, run, listing, loaded, entries, marketplace,
                   outFile, prevFile, firstPlugins>>
    /\ UNCHANGED <<valVars, patchVars, callVars, runVars>>

\* the script is started again over the same tree
IdxRerun ==
    /\ ipc = "done"
    /\ run < MaxRuns
    /\ run' = run + 1
    /\ ipc' = "start"
    /\ listing' = <<>>
    /\ loaded' = 0
    /\ entries' = <<>>
    /\ marketplace' = <<>>
    /\ UNCHANGED <<idxRootExists, idxTree, outFile, prevFile, firstPlugins>>
    /\ UNCHANGED <<valVars, patchVars, callVars, runVars>>

IdxNext ==
    IdxStart \/ IdxLoad \/ IdxSort \/ IdxOpen \/ IdxWrite \/ IdxClose \/ IdxInterrupt
    \/ IdxRerun

(***************************************************************************)
(* Inputs of the index builder.                                            *)
(***************************************************************************)
RootName == <<"p","l","u","g","i","n","s">>

CatCi == <<"c","i">>

CatMl == <<"m","l">>

\* the plugin directory paths of the tree: plugins/ci/p, plugins/ci/q, plugins/ml/p
IdxPaths == {[cat |-> CatCi, dir |-> <<"p">>], [cat |-> CatCi, dir |-> <<"q">>],
             [cat |-> CatMl, dir |-> <<"p">>]}

\* what a plugin directory can hold: no plugin.json, a broken or non-object
\* one, or an object with or without name and category
IdxManifests ==
    {OtherManifest(k) : k \in {"missing", "badjson", "nonobject"}}
    \cup {ObjectManifest(AbsentData),
          ObjectManifest([AbsentData EXCEPT !.name = Str(<<"x">>), !.category = Str(CatCi)]),
          ObjectManifest([AbsentData EXCEPT !.name = Str(<<"y">>), !.category = Str(CatMl),
                                            !.tags = List(<<TagX>>)])}

IdxDir(path, manifest, hidden) ==
    [root |-> RootName, cat |-> path.cat, dir |-> path.dir, catHidden |-> FALSE,
     isDir |-> TRUE, hidden |-> hidden, manifest |-> manifest]

IdxChoices == [manifest : IdxManifests, hidden : {FALSE}]
              \cup {[manifest |-> ObjectManifest(AbsentData), hidden |-> TRUE]}

IdxTrees ==
    {{IdxDir(p, c[p].manifest, c[p].hidden) : p \in IdxPaths} : c \in [IdxPaths -> IdxChoices]}

\* an index written by an earlier version of the tree
OldContent == <<Chunk("{ name, owner, description, version, plugins: [", NoEntry),
                Chunk("] }", NoEntry)>>

IdxInit ==
    /\ idxRootExists \in BOOLEAN
    /\ idxTree \in (IF idxRootExists THEN IdxTrees ELSE {{}})
    /\ ipc = "start"
    /\ run = 1
    /\ listing = <<>>
    /\ loaded = 0
    /\ entries = <<>>
    /\ marketplace = <<>>
    /\ outFile = OldContent
    /\ prevFile = OldContent
    /\ firstPlugins = <<>>

\* the index builder does not run
IdxOff ==
    /\ idxRootExists = FALSE
    /\ idxTree = {}
    /\ ipc = "off"
    /\ run = 1
    /\ listing = <<>>
    /\ loaded = 0
    /\ entries = <<>>
    /\ marketplace = <<>>
    /\ outFile = <<>>
    /\ prevFile = <<>>
    /\ firstPlugins = <<>>

(***************************************************************************)
(* Properties of the index builder.                                        *)
(***************************************************************************)
IsSortedByKey(es) == \A i, j \in 1..Len(es) : i < j => ~KeyLess(es[j], es[i])

IndexBuilt == ipc \in {"open", "write", "interrupted", "done"}

\* C4 as stated: every run produces a plugins array sorted by (category,
\* name), and a later run over the unchanged tree produces the array of the
\* first run, whatever the listing orders are.
C4_Deterministic ==
    IndexBuilt =>
        /\ IsSortedByKey(marketplace)
        /\ run > 1 => marketplace = firstPlugins

\* C5 as stated: when the builder fails or is interrupted while writing, the
\* output file holds its complete previous content or the complete new index.
C5_AllOrNothing ==
    ipc = "interrupted" => (outFile = prevFile \/ outFile = Serialize(marketplace))

(***************************************************************************)
(* find_plugins and load_plugin_metadata called on their own.              *)
(***************************************************************************)
Pending == [state |-> "pending", exc |-> "", value |-> <<>>]

ReturnedValue(v) == [state |-> "returned", exc |-> "", value |-> v]

RaisedError(exc) == [state |-> "raised", exc |-> exc, value |-> <<>>]

\* Path.iterdir() on the root: FileNotFoundError when there is no such directory
IterdirRaises(d) == ~d.root

\* find_plugins(plugins_dir) of validate_plugins.py
FindPluginsCall ==
    /\ fn = "validate_plugins.find_plugins"
    /\ ret = Pending
    /\ ret' = IF IterdirRaises(disk)
              THEN RaisedError("FileNotFoundError")
              ELSE ReturnedValue(find_plugins(disk.entries))
    /\ UNCHANGED <<fn, disk0, disk>>
    /\ UNCHANGED <<valVars, idxVars, patchVars, runVars>>

\* find_plugins(plugins_dir) of generate_marketplace.py
IdxFindPluginsCall ==
    /\ fn = "generate_marketplace.find_plugins"
    /\ ret = Pending
    /\ IF IterdirRaises(disk)
       THEN ret' = RaisedError("FileNotFoundError")
       ELSE \E order \in ListingOrders(IdxDiscovered(disk.entries)) :
                ret' = ReturnedValue(order)
    /\ UNCHANGED <<fn, disk0, disk>>
    /\ UNCHANGED <<valVars, idxVars, patchVars, runVars>>

\* what load_plugin_metadata hands to its caller: None, the data, or an exception
ReturnedNone == [state |-> "returned None", exc |-> "", value |-> <<>>]

LoadOutcome(m) ==
    IF m.raised THEN RaisedError("OSError or AttributeError")
    ELSE IF m.none THEN ReturnedNone
    ELSE ReturnedValue(m.data)

\* load_plugin_metadata(plugin_dir) of generate_marketplace.py
LoadPluginMetadataCall ==
    /\ fn = "load_plugin_metadata"
    /\ ret = Pending
    /\ ret' = LoadOutcome(load_plugin_metadata(disk.entries))
    /\ UNCHANGED <<fn, disk0, disk>>
    /\ UNCHANGED <<valVars, idxVars, patchVars, runVars>>

CallNext == FindPluginsCall \/ IdxFindPluginsCall \/ LoadPluginMetadataCall

\* a tree for the validator's find_plugins: plugins, a hidden directory, a
\* plain file, a directory without plugin structure
FindDirs ==
    {PluginDir(ObjectManifest(GoodData), SkillDoc(DocComplete)),
     PluginDir(OtherManifest("nodir"), NoSkill("nofile")),
     PluginDir(OtherManifest("nodir"), NoSkill("nodir")),
     [PluginDir(ObjectManifest(GoodData), SkillDoc(DocComplete)) EXCEPT !.hidden = TRUE],
     [PluginDir(ObjectManifest(GoodData), SkillDoc(DocComplete)) EXCEPT !.isDir = FALSE]}

FindTrees == {Listing(f) : f \in UNION {[1..n -> FindDirs] : n \in 0..MaxPlugins}}

\* the plugin directories handed to load_plugin_metadata
LoadDirs ==
    {IdxDir(p, m, FALSE) :
        p \in IdxPaths,
        m \in IdxManifests \cup {OtherManifest("nodir"), OtherManifest("unreadable")}}

\* no root directory: nothing is listed
NoRoot(nothing) == [root |-> FALSE, entries |-> nothing]

CallInit ==
    /\ fn \in {"validate_plugins.find_plugins", "generate_marketplace.find_plugins",
                "load_plugin_metadata"}
    /\ disk0 \in CASE fn = "validate_plugins.find_plugins" ->
                       {NoRoot(<<>>)} \cup {[root |-> TRUE, entries |-> t] : t \in FindTrees}
                  [] fn = "generate_marketplace.find_plugins" ->
                       {NoRoot({})} \cup {[root |-> TRUE, entries |-> t] : t \in IdxTrees}
                  [] OTHER -> {[root |-> TRUE, entries |-> d] : d \in LoadDirs}
    /\ disk = disk0
    /\ ret = Pending

(***************************************************************************)
(* Properties of the single calls.                                         *)
(***************************************************************************)
\* C13 as stated: find_plugins, of either script, called with a root
\* directory that does not exist returns the empty sequence, raises nothing
\* and leaves the directory tree as it was.
C13_MissingRootEmpty ==
    (/\ fn \in {"validate_plugins.find_plugins", "generate_marketplace.find_plugins"}
     /\ ~disk0.root
     /\ ret # Pending) =>
        /\ ret = ReturnedValue(<<>>)
        /\ disk = disk0

\* C14 as stated: load_plugin_metadata returns "no metadata" when the manifest
\* file is absent, ends in an outcome other than "no metadata" (a parse error)
\* when the file is present but no JSON, and leaves the file as it was.
C14_LoaderOutcomes ==
    (fn = "load_plugin_metadata" /\ ret.state # "pending") =>
        /\ disk0.entries.manifest.kind \in {"nodir", "missing"} => ret.state = "returned None"
        /\ disk0.entries.manifest.kind = "badjson" => ret.state # "returned None"
        /\ disk = disk0

(***************************************************************************)
(* The patchers: strings and re under Python's rules.                      *)
(***************************************************************************)
MaxPatchRuns == 2    \* calls of fix_skill_file on one document

MaxBodyLines == 2    \* lines of a document after its frontmatter and title

\* e(v), with v computed once
Bind(v, e(_)) == CHOOSE r \in {e(x) : x \in {v}} : TRUE

\* \s of re on str, over the characters of the documents
Whitespace == {" ", "\t", "\n", "\r"}

Min(S) == CHOOSE x \in S : \A y \in S : x <= y

Max(S) == CHOOSE x \in S : \A y \in S : x >= y

MinOrZero(S) == IF S = {} THEN 0 ELSE Min(S)

MaxOrZero(S) == IF S = {} THEN 0 ELSE Max(S)

\* `^` under re.MULTILINE
LineStartAt(s, i) == i = 1 \/ (i >= 2 /\ i <= Len(s) + 1 /\ s[i - 1] = "\n")

\* `$` under re.MULTILINE
LineEndAt(s, p) == p = Len(s) + 1 \/ (p >= 1 /\ p <= Len(s) /\ s[p] = "\n")

\* the first `$` at or behind from
EndOfLine(s, from) == Min({p \in from..(Len(s) + 1) : LineEndAt(s, p)})

\* where a greedy `\s*` that starts at a ends
WsRunEnd(s, a) == Min({p \in a..(Len(s) + 1) : p = Len(s) + 1 \/ s[p] \notin Whitespace})

\* where a greedy `\d*` that starts at a ends
DigitRunEnd(s, a) == Min({p \in a..(Len(s) + 1) : p = Len(s) + 1 \/ s[p] \notin Digit})

\* re.search(r'^lit', s, re.MULTILINE): the position of the match, 0 if none
SearchLine(s, lit) ==
    MinOrZero({i \in 1..(Len(s) + 1) : LineStartAt(s, i) /\ MatchAt(s, i, lit)})

RECURSIVE SplitFrom(_, _)
\* the lines of s from position from on
SplitFrom(s, from) ==
    Bind(Find(s, NL, from), LAMBDA k :
        IF k = 0 THEN <<Slice(s, from, Len(s))>>
        ELSE <<Slice(s, from, k - 1)>> \o SplitFrom(s, k + 1))

\* s.split('\n')
SplitLines(s) == SplitFrom(s, 1)

RECURSIVE JoinFrom(_, _, _)
JoinFrom(ls, i, sep) ==
    IF i > Len(ls) THEN <<>>
    ELSE IF i = Len(ls) THEN ls[i]
    ELSE ls[i] \o sep \o JoinFrom(ls, i + 1, sep)

\* sep.join(ls)
JoinWith(ls, sep) == JoinFrom(ls, 1, sep)

\* s.rstrip()
RStrip(s) == Slice(s, 1, MaxOrZero({k \in 1..Len(s) : s[k] \notin Whitespace}))

\* s.strip()
Strip(s) ==
    Bind({k \in 1..Len(s) : s[k] \notin Whitespace}, LAMBDA keep :
        IF keep = {} THEN <<>> ELSE Slice(s, Min(keep), Max(keep)))

RECURSIVE ReplaceFrom(_, _, _, _)
\* s with old replaced by new from position from on, left to right
ReplaceFrom(s, from, old, new) ==
    Bind(Find(s, old, from), LAMBDA k :
        IF k = 0 THEN Slice(s, from, Len(s))
        ELSE Slice(s, from, k - 1) \o new \o ReplaceFrom(s, k + Len(old), old, new))

\* s.replace(old, new)
ReplaceAll(s, old, new) == ReplaceFrom(s, 1, old, new)

\* re.sub(r'^old$', new, s, flags=re.MULTILINE): `^old$` matches the lines
\* that are exactly old
ReplaceLine(s, old, new) ==
    Bind(SplitLines(s), LAMBDA lines :
        JoinWith([i \in 1..Len(lines) |-> IF lines[i] = old THEN new ELSE lines[i]], NL))

\* s[:pos] + t + s[pos:], pos being the offset of the character s[p]
InsertAt(s, p, t) == Slice(s, 1, p - 1) \o t \o Slice(s, p, Len(s))

(***************************************************************************)
(* The patchers: the Failed Attempts section as the three scripts find it. *)
(***************************************************************************)
\* the line starts where `^## Failed Attempts` matches
HeadingStarts(s) == {i \in 1..Len(s) : LineStartAt(s, i) /\ MatchAt(s, i, HFailedAttempts)}

\* the end of `^## Failed Attempts\s*$` matched at i, 0 when it does not
\* match: the greedy \s* gives characters back until `$` holds
HeadingEnd(s, i) ==
    MaxOrZero({p \in (i + Len(HFailedAttempts))..WsRunEnd(s, i + Len(HFailedAttempts)) :
                  LineEndAt(s, p)})

\* the end of `^## Failed Attempts.*?$` matched at i: the end of the line
HeadingLineEnd(s, i) == EndOfLine(s, i + Len(HFailedAttempts))

\* the end of the heading pattern matched at i; anySuffix tells `.*?$` from
\* `\s*$`
HeadEndAt(s, i, anySuffix) == IF anySuffix THEN HeadingLineEnd(s, i) ELSE HeadingEnd(s, i)

\* the first `^##` at or behind p, 0 if none
NextHashHash(s, p) ==
    MinOrZero({q \in p..Len(s) : LineStartAt(s, q) /\ MatchAt(s, q, HashHash)})

NoMatch == [found |-> FALSE, headEnd |-> 0, secEnd |-> 0, end |-> 0]

\* the match whose heading ends at p and whose `(.*?)(?:^##|\Z)` ends at the
\* `##` found at q, or at the end of s when q = 0
MatchUpTo(s, p, q) ==
    [found |-> TRUE, headEnd |-> p,
     secEnd |-> IF q = 0 THEN Len(s) + 1 ELSE q,
     end |-> IF q = 0 THEN Len(s) + 1 ELSE q + 2]

\* re.search of the heading pattern followed by `(.*?)(?:^##|\Z)`, or by
\* `(.*?)^##` when needHash. group(1) is s[headEnd .. secEnd - 1],
\* match.end() the offset of s[end].
SectionMatch(s, anySuffix, needHash) ==
    Bind(MinOrZero({i \in HeadingStarts(s) :
                       /\ HeadEndAt(s, i, anySuffix) # 0
                       /\ needHash => NextHashHash(s, HeadEndAt(s, i, anySuffix)) # 0}),
         LAMBDA i :
             IF i = 0 THEN NoMatch
             ELSE Bind(HeadEndAt(s, i, anySuffix), LAMBDA p :
                      Bind(NextHashHash(s, p), LAMBDA q : MatchUpTo(s, p, q))))

\* re.search of the heading pattern alone; match.end() is the offset of s[end]
HeadingMatch(s, anySuffix) ==
    Bind(MinOrZero({i \in HeadingStarts(s) : HeadEndAt(s, i, anySuffix) # 0}), LAMBDA i :
        IF i = 0 THEN NoMatch
        ELSE Bind(HeadEndAt(s, i, anySuffix), LAMBDA p :
                 [found |-> TRUE, headEnd |-> p, secEnd |-> p, end |-> p]))

SectionContent(s, m) == Slice(s, m.headEnd, m.secEnd - 1)

(***************************************************************************)
(* fix_validation_warnings.py                                              *)
(***************************************************************************)
DateKey == <<"d","a","t","e",":">>

DateNA == <<"N","/","A">>

\* where group 1 of `date:\s*["\']?([0-9-]+)` starts when the pattern is
\* matched at i
DateStart(s, i) ==
    Bind(WsRunEnd(s, i + Len(DateKey)), LAMBDA b :
        IF b <= Len(s) /\ s[b] \in {"\"", "'"} THEN b + 1 ELSE b)

\* where a greedy `[0-9-]*` that starts at c ends
DateRunEnd(s, c) ==
    Min({p \in c..(Len(s) + 1) : p = Len(s) + 1 \/ s[p] \notin (Digit \cup {"-"})})

\* the match of `date:\s*["\']?([0-9-]+)` at i
DateAt(s, i) ==
    Bind(DateStart(s, i), LAMBDA c :
        Bind(DateRunEnd(s, c), LAMBDA e : [ok |-> e > c, date |-> Slice(s, c, e - 1)]))

extract_frontmatter_date(content) ==
    Bind(MinOrZero({i \in 1..Len(content) :
                       LineStartAt(content, i) /\ MatchAt(content, i, DateKey)
                       /\ DateAt(content, i).ok}),
         LAMBDA i : IF i = 0 THEN DateNA ELSE DateAt(content, i).date)

DefaultObjective == <<"D","o","c","u","m","e","n","t"," ","w","o","r","k","f","l","o","w"," ","a","n","d"," ","b","e","s","t"," ","p","r","a","c","t","i","c","e","s">>

Ellipsis == <<".", ".", ".">>

H1Prefix == <<"#", " ">>

RECURSIVE ObjectiveLines(_, _, _, _, _)
\* the loop of extract_objective from line i on
ObjectiveLines(lines, i, in_frontmatter, past_title, objective_lines) ==
    IF i > Len(lines) THEN objective_lines
    ELSE Bind(Strip(lines[i]), LAMBDA stripped :
        IF stripped = FrontmatterDelimiter
        THEN ObjectiveLines(lines, i + 1, ~in_frontmatter, past_title, objective_lines)
        ELSE IF in_frontmatter
        THEN ObjectiveLines(lines, i + 1, in_frontmatter, past_title, objective_lines)
        ELSE IF StartsWith(lines[i], H1Prefix)
        THEN ObjectiveLines(lines, i + 1, in_frontmatter, TRUE, objective_lines)
        ELSE IF past_title /\ stripped # <<>> /\ ~StartsWith(lines[i], <<"#">>)
        THEN Bind(Append(objective_lines, stripped), LAMBDA appended :
                 IF Len(JoinWith(appended, <<" ">>)) > 100 THEN appended
                 ELSE ObjectiveLines(lines, i + 1, in_frontmatter, past_title, appended))
        ELSE ObjectiveLines(lines, i + 1, in_frontmatter, past_title, objective_lines))

extract_objective(content) ==
    Bind(SplitLines(content), LAMBDA lines :
        Bind(JoinWith(ObjectiveLines(lines, 1, FALSE, FALSE, <<>>), <<" ">>),
             LAMBDA objective :
                 IF objective = <<>> THEN DefaultObjective
                 ELSE IF Len(objective) > 150 THEN Slice(objective, 1, 147) \o Ellipsis
                 ELSE objective))

has_overview_section(content) == SearchLine(content, HOverview) # 0

has_verified_workflow_section(content) == SearchLine(content, HVerifiedWorkflow) # 0

has_results_section(content) == SearchLine(content, HResults) # 0

\* True also when the pattern, which needs a `^##` behind the section, finds
\* no section
vw_has_failed_attempts_table(content) ==
    Bind(SectionMatch(content, FALSE, TRUE), LAMBDA match :
        IF ~match.found THEN TRUE ELSE Contains(SectionContent(content, match), Pipe))

overview_table(date, objective) ==
    <<"\n","#","#"," ","O","v","e","r","v","i","e","w","\n","\n","|"," ","I","t","e","m"," ","|"," ","D","e","t","a","i","l","s"," ","|","\n","|","-","-","-","-","-","-","|","-","-","-","-","-","-","-","-","-","|","\n","|"," ","D","a","t","e"," ","|"," ">>
    \o date \o <<" ","|","\n","|"," ","O","b","j","e","c","t","i","v","e"," ","|"," ">>
    \o objective \o <<" ","|","\n","|"," ","O","u","t","c","o","m","e"," ","|"," ","O","p","e","r","a","t","i","o","n","a","l"," ","|","\n">>

RECURSIVE TitleInsertPos(_, _, _)
\* the loop of add_overview_section from line i on: the index behind the first
\* `# ` line outside the frontmatter, 0 when there is none
TitleInsertPos(lines, i, in_frontmatter) ==
    IF i > Len(lines) THEN 0
    ELSE IF Strip(lines[i]) = FrontmatterDelimiter
    THEN TitleInsertPos(lines, i + 1, ~in_frontmatter)
    ELSE IF ~in_frontmatter /\ StartsWith(lines[i], H1Prefix) THEN i
    ELSE TitleInsertPos(lines, i + 1, in_frontmatter)

\* lines.insert(insert_pos, x)
ListInsert(lines, insert_pos, x) ==
    Slice(lines, 1, insert_pos) \o <<x>> \o Slice(lines, insert_pos + 1, Len(lines))

add_overview_section(content) ==
    Bind(SplitLines(content), LAMBDA lines :
        Bind(overview_table(extract_frontmatter_date(content), extract_objective(content)),
             LAMBDA table :
                 Bind(ListInsert(lines, TitleInsertPos(lines, 1, FALSE), table),
                      LAMBDA inserted : JoinWith(inserted, NL))))

rename_workflow_to_verified(content) ==
    IF has_verified_workflow_section(content) THEN content
    ELSE ReplaceLine(content, HWorkflow, HVerifiedWorkflow)

results_section == <<"\n","#","#"," ","R","e","s","u","l","t","s"," ","&"," ","P","a","r","a","m","e","t","e","r","s","\n","\n","N","/","A"," ","<emdash>"," ","t","h","i","s"," ","s","k","i","l","l"," ","d","e","s","c","r","i","b","e","s"," ","a"," ","w","o","r","k","f","l","o","w"," ","p","a","t","t","e","r","n",".","\n">>

add_results_section(content) ==
    IF Contains(content, HReferences)
    THEN ReplaceAll(content, HReferences, results_section \o NL \o HReferences)
    ELSE RStrip(content) \o NL \o results_section

vw_table_subsections == <<"\n","\n","|"," ","A","t","t","e","m","p","t"," ","|"," ","W","h","y"," ","F","a","i","l","e","d"," ","|"," ","L","e","s","s","o","n"," ","|","\n","|","-","-","-","-","-","-","-","-","-","|","-","-","-","-","-","-","-","-","-","-","-","|","-","-","-","-","-","-","-","-","|","\n","|"," ","S","e","e"," ","d","e","t","a","i","l","e","d"," ","s","u","b","s","e","c","t","i","o","n","s"," ","b","e","l","o","w"," ","|"," ","V","a","r","i","o","u","s"," ","t","e","c","h","n","i","c","a","l"," ","i","s","s","u","e","s"," ","|"," ","R","e","f","e","r"," ","t","o"," ","i","n","d","i","v","i","d","u","a","l"," ","a","t","t","e","m","p","t"," ","d","e","t","a","i","l","s"," ","|","\n">>

vw_table_generic == <<"\n","\n","|"," ","A","t","t","e","m","p","t"," ","|"," ","W","h","y"," ","F","a","i","l","e","d"," ","|"," ","L","e","s","s","o","n"," ","|","\n","|","-","-","-","-","-","-","-","-","-","|","-","-","-","-","-","-","-","-","-","-","-","|","-","-","-","-","-","-","-","-","|","\n","|"," ","I","n","i","t","i","a","l"," ","a","p","p","r","o","a","c","h"," ","|"," ","S","e","e"," ","d","e","t","a","i","l","s"," ","b","e","l","o","w"," ","|"," ","R","e","f","e","r"," ","t","o"," ","n","o","t","e","s"," ","i","n"," ","t","h","i","s"," ","s","e","c","t","i","o","n"," ","|","\n">>

TripleHash == <<"#", "#", "#">>

\* re.search(r'^###', section_content, re.MULTILINE)
has_subsections(section_content) == SearchLine(section_content, TripleHash) # 0

vw_add_failed_attempts_table(content) ==
    Bind(HeadingMatch(content, FALSE), LAMBDA match :
        Bind(SectionMatch(content, FALSE, FALSE), LAMBDA section_match :
            IF ~match.found \/ ~section_match.found THEN content
            ELSE Bind(SectionContent(content, section_match), LAMBDA section_content :
                     InsertAt(content, match.end,
                              IF has_subsections(section_content)
                              THEN vw_table_subsections ELSE vw_table_generic))))

\* the content after fixes 1 to 4 of fix_skill_file
VwFix1(content) ==
    IF ~has_overview_section(content) THEN add_overview_section(content) ELSE content

VwFix2(content) ==
    IF ~has_verified_workflow_section(content) THEN rename_workflow_to_verified(content)
    ELSE content

VwFix3(content) ==
    IF ~has_results_section(content) THEN add_results_section(content) ELSE content

VwFix4(content) ==
    IF ~vw_has_failed_attempts_table(content) THEN vw_add_failed_attempts_table(content)
    ELSE content

\* the fixes list of fix_skill_file, c1 to c3 being the content after fixes
\* 1 to 3
VwFixes(original_content, c1, c2, c3) ==
    (IF ~has_overview_section(original_content)
     THEN <<"Added ## Overview table">> ELSE <<>>)
    \o (IF c2 # c1 THEN <<"Renamed ## Workflow to ## Verified Workflow">> ELSE <<>>)
    \o (IF ~has_results_section(c2) THEN <<"Added ## Results & Parameters">> ELSE <<>>)
    \o (IF ~vw_has_failed_attempts_table(c3)
        THEN <<"Added Failed Attempts summary table">> ELSE <<>>)

\* fix_skill_file: the content it ends with, what it returns
vw_fix_skill_file(original_content) ==
    Bind(VwFix1(original_content), LAMBDA c1 :
        Bind(VwFix2(c1), LAMBDA c2 :
            Bind(VwFix3(c2), LAMBDA c3 :
                Bind(VwFix4(c3), LAMBDA c4 :
                    [content |-> c4, modified |-> c4 # original_content,
                     fixes |-> IF c4 # original_content
                               THEN VwFixes(original_content, c1, c2, c3) ELSE <<>>]))))

(***************************************************************************)
(* fix_remaining_warnings.py                                               *)
(***************************************************************************)
rw_has_failed_attempts_table(content) ==
    Bind(SectionMatch(content, FALSE, FALSE), LAMBDA match :
        IF ~match.found THEN TRUE ELSE Contains(SectionContent(content, match), Pipe))

\* workflow_sections, in order
workflow_sections == <<
    <<"Q","u","i","c","k"," ","R","e","f","e","r","e","n","c","e">>,
    <<"A","n","a","l","y","s","i","s"," ","W","o","r","k","f","l","o","w">>,
    <<"W","o","r","k","f","l","o","w"," ","S","t","e","p","s">>,
    <<"I","m","p","l","e","m","e","n","t","a","t","i","o","n"," ","S","t","e","p","s">>,
    <<"U","s","a","g","e">>>>

HashHashSpace == <<"#", "#", " ">>

VerifiedWorkflowWrapper == <<"#","#"," ","V","e","r","i","f","i","e","d"," ","W","o","r","k","f","l","o","w","\n","\n","#","#","#"," ">>

\* the first section name of workflow_sections that `^## name$` finds, 0
\* when it finds none
FirstWorkflowSection(lines) ==
    MinOrZero({k \in 1..Len(workflow_sections) :
                  \E i \in 1..Len(lines) : lines[i] = HashHashSpace \o workflow_sections[k]})

add_verified_workflow_wrapper(content) ==
    Bind(FirstWorkflowSection(SplitLines(content)), LAMBDA k :
        IF k = 0 THEN content
        ELSE ReplaceLine(content, HashHashSpace \o workflow_sections[k],
                         VerifiedWorkflowWrapper \o workflow_sections[k]))

rw_table == <<"\n","\n","|"," ","A","p","p","r","o","a","c","h"," ","|"," ","I","s","s","u","e"," ","|"," ","R","e","s","o","l","u","t","i","o","n"," ","|","\n","|","-","-","-","-","-","-","-","-","-","-","|","-","-","-","-","-","-","-","|","-","-","-","-","-","-","-","-","-","-","-","-","|","\n","|"," ","S","e","e"," ","d","e","t","a","i","l","s"," ","b","e","l","o","w"," ","|"," ","V","a","r","i","o","u","s"," ","i","m","p","l","e","m","e","n","t","a","t","i","o","n"," ","c","h","a","l","l","e","n","g","e","s"," ","|"," ","D","o","c","u","m","e","n","t","e","d"," ","i","n"," ","t","h","i","s"," ","s","e","c","t","i","o","n"," ","|","\n">>

\* the table goes to match.end() of the pattern that spans the whole section
improve_failed_attempts_table(content) ==
    Bind(SectionMatch(content, FALSE, FALSE), LAMBDA match :
        IF ~match.found THEN content
        ELSE IF Contains(SectionContent(content, match), Pipe) THEN content
        ELSE InsertAt(content, match.end, rw_table))

RwFix1(content) ==
    IF ~has_verified_workflow_section(content) THEN add_verified_workflow_wrapper(content)
    ELSE content

RwFix2(content) ==
    IF ~rw_has_failed_attempts_table(content) THEN improve_failed_attempts_table(content)
    ELSE content

RwFixes(original_content, c1, c2) ==
    (IF c1 # original_content THEN <<"Added ## Verified Workflow wrapper">> ELSE <<>>)
    \o (IF ~rw_has_failed_attempts_table(c1) /\ c2 # original_content
        THEN <<"Improved Failed Attempts table">> ELSE <<>>)

rw_fix_skill_file(original_content) ==
    Bind(RwFix1(original_content), LAMBDA c1 :
        Bind(RwFix2(c1), LAMBDA c2 :
            [content |-> c2, modified |-> c2 # original_content,
             fixes |-> IF c2 # original_content
                       THEN RwFixes(original_content, c1, c2) ELSE <<>>]))

(***************************************************************************)
(* fix_failed_attempts_tables.py                                           *)
(***************************************************************************)
fat_has_failed_attempts_table(content) ==
    Bind(SectionMatch(content, TRUE, FALSE), LAMBDA match :
        IF ~match.found THEN TRUE ELSE Contains(SectionContent(content, match), Pipe))

AttemptWord == <<"A", "t", "t", "e", "m", "p", "t">>

\* the end of `\s+\d+:` matched at w, 0 when it does not match
NumberEnd(s, w) ==
    Bind(WsRunEnd(s, w), LAMBDA b :
        Bind(DigitRunEnd(s, b), LAMBDA d :
            IF b > w /\ d > b /\ d <= Len(s) /\ s[d] = ":" THEN d + 1 ELSE 0))

\* the end of `Attempt\s+\d+:` matched at a, 0 when it does not match
AttemptNumberEnd(s, a) ==
    IF MatchAt(s, a, AttemptWord) THEN NumberEnd(s, a + Len(AttemptWord)) ELSE 0

\* the end of what attempt_patterns[k] has in front of `\s*(.+?)$`, matched
\* at i; 0 when it does not match
PatternPrefixEnd(s, i, k) ==
    IF ~MatchAt(s, i, TripleHash) THEN 0
    ELSE Bind(WsRunEnd(s, i + 3), LAMBDA a :
             CASE k = 1 -> IF a <= Len(s) /\ s[a] = "<crossmark>"
                           THEN AttemptNumberEnd(s, WsRunEnd(s, a + 1)) ELSE 0
               [] k = 2 -> AttemptNumberEnd(s, a)
               [] OTHER -> i + 3)

\* where group 1 of `\s*(.+?)$` starts when the pattern continues at a: the
\* greedy \s* gives characters back until a character other than a newline
\* follows; 0 when there is none
TitleStart(s, a) ==
    IF a = 0 THEN 0
    ELSE MaxOrZero({c \in a..WsRunEnd(s, a) : c <= Len(s) /\ s[c] # "\n"})

\* the match whose group 1 is s[c .. e - 1]
TitleMatch(s, c, e) == [ok |-> TRUE, title |-> Strip(Slice(s, c, e - 1)), end |-> e]

\* attempt_patterns[k] matched at i
AttemptMatchAt(s, i, k) ==
    Bind(TitleStart(s, PatternPrefixEnd(s, i, k)), LAMBDA c :
        IF c = 0 THEN [ok |-> FALSE, title |-> <<>>, end |-> 0]
        ELSE TitleMatch(s, c, EndOfLine(s, c + 1)))

RECURSIVE AttemptTitles(_, _, _, _)
\* the titles of the first n matches of re.finditer(attempt_patterns[k], s)
\* from position from on
AttemptTitles(s, from, k, n) ==
    IF n = 0 THEN <<>>
    ELSE Bind(MinOrZero({i \in from..Len(s) : AttemptMatchAt(s, i, k).ok}), LAMBDA i :
             IF i = 0 THEN <<>>
             ELSE Bind(AttemptMatchAt(s, i, k), LAMBDA m :
                      <<m.title>> \o AttemptTitles(s, m.end, k, n - 1)))

\* the titles of the attempts, from the first pattern that matches at all
extract_attempts_from_subsections(section_content) ==
    Bind(AttemptTitles(section_content, 1, 1, 3), LAMBDA first :
        IF first # <<>> THEN first
        ELSE Bind(AttemptTitles(section_content, 1, 2, 3), LAMBDA second :
                 IF second # <<>> THEN second
                 ELSE AttemptTitles(section_content, 1, 3, 3)))

fat_table_header == <<"\n","|"," ","A","t","t","e","m","p","t"," ","|"," ","I","s","s","u","e"," ","|"," ","R","e","s","o","l","u","t","i","o","n"," ","|","\n","|","-","-","-","-","-","-","-","-","-","|","-","-","-","-","-","-","-","|","-","-","-","-","-","-","-","-","-","-","-","-","|","\n">>

fat_row_tail == <<" ","|"," ","S","e","e"," ","d","e","t","a","i","l","s"," ","b","e","l","o","w"," ","|"," ","D","o","c","u","m","e","n","t","e","d"," ","i","n"," ","s","u","b","s","e","c","t","i","o","n","s"," ","|","\n">>

fat_table_generic == <<"\n","|"," ","A","t","t","e","m","p","t"," ","|"," ","I","s","s","u","e"," ","|"," ","R","e","s","o","l","u","t","i","o","n"," ","|","\n","|","-","-","-","-","-","-","-","-","-","|","-","-","-","-","-","-","-","|","-","-","-","-","-","-","-","-","-","-","-","-","|","\n","|"," ","S","e","e"," ","d","e","t","a","i","l","e","d"," ","n","o","t","e","s"," ","b","e","l","o","w"," ","|"," ","V","a","r","i","o","u","s"," ","a","p","p","r","o","a","c","h","e","s"," ","t","r","i","e","d"," ","|"," ","R","e","f","e","r"," ","t","o"," ","d","o","c","u","m","e","n","t","a","t","i","o","n"," ","i","n"," ","t","h","i","s"," ","s","e","c","t","i","o","n"," ","|","\n">>

RowNumber == <<"1", "2", "3">>

RECURSIVE SummaryRows(_, _)
\* the rows of generate_summary_table from attempt i on
SummaryRows(attempts, i) ==
    IF i > Len(attempts) THEN <<>>
    ELSE <<"|", " ", RowNumber[i], ".", " ">>
         \o (IF Len(attempts[i]) > 50 THEN Slice(attempts[i], 1, 47) \o Ellipsis
             ELSE attempts[i])
         \o fat_row_tail \o SummaryRows(attempts, i + 1)

generate_summary_table(section_content) ==
    Bind(extract_attempts_from_subsections(section_content), LAMBDA attempts :
        IF attempts # <<>> THEN fat_table_header \o SummaryRows(attempts, 1)
        ELSE fat_table_generic)

fat_add_failed_attempts_table(content) ==
    Bind(HeadingMatch(content, TRUE), LAMBDA match :
        Bind(SectionMatch(content, TRUE, FALSE), LAMBDA section_match :
            IF ~match.found \/ ~section_match.found THEN content
            ELSE Bind(SectionContent(content, section_match), LAMBDA section_content :
                     InsertAt(content, match.end, generate_summary_table(section_content)))))

fat_fix_skill_file(original_content) ==
    IF fat_has_failed_attempts_table(original_content)
    THEN [content |-> original_content, modified |-> FALSE, fixes |-> <<"Already has table">>]
    ELSE Bind(fat_add_failed_attempts_table(original_content), LAMBDA content :
             IF content # original_content
             THEN [content |-> content, modified |-> TRUE, fixes |-> <<"Added summary table">>]
             ELSE [content |-> original_content, modified |-> FALSE,
                   fixes |-> <<"No changes needed">>])

(***************************************************************************)
(* The patchers: one call of fix_skill_file on the document.               *)
(***************************************************************************)
PatchTools == {"fix_validation_warnings", "fix_remaining_warnings", "fix_failed_attempts_tables"}

\* what a call of fix_skill_file leaves behind: write_file is called iff the
\* content differs from original_content
PatchCall(tool, r) ==
    /\ file' = IF r.content # file THEN r.content ELSE file
    /\ history' = Append(history, [tool |-> tool, before |-> file, after |-> file',
                                   wrote |-> r.content # file,
                                   modified |-> r.modified, fixes |-> r.fixes])
    /\ UNCHANGED patcher
    /\ UNCHANGED <<valVars, idxVars, callVars, runVars>>

VwFixSkillFile ==
    /\ patcher = "fix_validation_warnings"
    /\ Len(history) < MaxPatchRuns
    /\ \E r \in {vw_fix_skill_file(file)} : PatchCall(patcher, r)

RwFixSkillFile ==
    /\ patcher = "fix_remaining_warnings"
    /\ Len(history) < MaxPatchRuns
    /\ \E r \in {rw_fix_skill_file(file)} : PatchCall(patcher, r)

FatFixSkillFile ==
    /\ patcher = "fix_failed_attempts_tables"
    /\ Len(history) < MaxPatchRuns
    /\ \E r \in {fat_fix_skill_file(file)} : PatchCall(patcher, r)

PatchNext == VwFixSkillFile \/ RwFixSkillFile \/ FatFixSkillFile

(***************************************************************************)
(* Inputs of the patchers.                                                 *)
(***************************************************************************)
HQuickReference == HashHashSpace \o workflow_sections[1]

MidLineAttempt == <<"n","o","t","e"," ","#","#","#"," ","A","t","t","e","m","p","t"," ","2",":"," ","B","a","d"," ","p","a","t","h">>

WrongConfig == <<"W","r","o","n","g"," ","c","o","n","f","i","g">>

\* a `###` behind other text, with a title of more than 50 characters
LongTitleLine == <<"-", " ">> \o TripleHash \o <<" ">> \o Repeat("t", 51)

\* a paragraph of more than 150 characters
LongProseLine == Repeat("w", 151)

BodyLines == {HFailedAttempts, SubAttemptLine, MidLineAttempt, ProseLine, <<>>, TableRowLine,
              HResults, HReferences, HWorkflow, HQuickReference}

Frontmatter == <<FrontmatterDelimiter, DateLine, FrontmatterDelimiter>>

\* what a document has in front of its body
Prefixes == {<<>>, <<TitleLine>>, Frontmatter, Frontmatter \o <<TitleLine>>,
             Frontmatter \o <<TitleLine, HOverview, TableRowLine, HVerifiedWorkflow>>}

Bodies == UNION {[1..n -> BodyLines] : n \in 0..MaxBodyLines}

CuratedDocs ==
    {JoinLines(<<TitleLine, LongProseLine, HFailedAttempts, LongTitleLine>>),
     JoinLines(<<TitleLine, ProseLine, HFailedAttempts, <<>>, SubAttemptLine, ProseLine,
                 HResults, ProseLine>>),
     JoinLines(<<HFailedAttempts \o <<" ", "&", " ", "x">>, LongTitleLine>>)}

PatchDocs ==
    {JoinWith(p \o b, NL) \o e : p \in Prefixes, b \in Bodies, e \in {<<>>, NL}}
    \cup CuratedDocs

PatchInit ==
    /\ patcher \in PatchTools
    /\ file \in PatchDocs
    /\ history = <<>>

(***************************************************************************)
(* Properties of the patchers.                                             *)
(***************************************************************************)
\* C2 as stated: a second application of fix_skill_file to the output of the
\* first leaves the document unchanged, writes nothing and reports
\* not-modified, for each of the three patchers.
C2_Idempotent ==
    \A k \in 2..Len(history) :
        /\ history[k].after = history[k].before
        /\ ~history[k].wrote
        /\ ~history[k].modified

\* the lines of the Failed Attempts section of a document as a reader of the
\* markdown sees it: from the heading line to the next `## ` heading
RECURSIVE UpToHeading(_)
UpToHeading(lines) ==
    IF lines = <<>> \/ StartsWith(Head(lines), HashHashSpace) THEN <<>>
    ELSE <<Head(lines)>> \o UpToHeading(Tail(lines))

SectionLines(doc) ==
    LET lines == SplitLines(doc)
        heads == {i \in 1..Len(lines) : lines[i] = HFailedAttempts}
    IN  IF heads = {} THEN <<>> ELSE UpToHeading(Slice(lines, Min(heads) + 1, Len(lines)))

NonBlank(lines) == SelectSeq(lines, LAMBDA l : Strip(l) # <<>>)

\* the section holds no pipe and starts with the subsection of the scenario
StartsWithWrongConfig(doc) ==
    /\ NonBlank(SectionLines(doc)) # <<>>
    /\ Head(NonBlank(SectionLines(doc))) = SubAttemptLine
    /\ \A i \in 1..Len(SectionLines(doc)) : ~Contains(SectionLines(doc)[i], Pipe)

HasSubsection(doc) ==
    \E i \in 1..Len(SectionLines(doc)) : StartsWith(SectionLines(doc)[i], TripleHash)

\* the table rows of the section: header, separator, then the data rows
TableRows(doc) == SelectSeq(SectionLines(doc), LAMBDA l : StartsWith(l, Pipe))

GenericRows == {<<"|"," ","S","e","e"," ","d","e","t","a","i","l","e","d"," ","n","o","t","e","s"," ","b","e","l","o","w"," ","|">>, <<"|"," ","I","n","i","t","i","a","l"," ","a","p","p","r","o","a","c","h"," ","|">>}

HasGenericRow(doc) ==
    \E i \in 1..Len(TableRows(doc)) : \E g \in GenericRows : StartsWith(TableRows(doc)[i], g)

TablePatchers == {"fix_validation_warnings", "fix_failed_attempts_tables"}

\* C3 as stated: after patching a document whose Failed Attempts section has
\* no pipe and starts with `### Attempt 1: Wrong config`, the section holds a
\* table whose first data row is labelled "Wrong config"; the generic
\* placeholder row appears only when the section has no `###` subsection.
C3_RowsFromSubsections ==
    \A k \in 1..Len(history) :
        (history[k].tool \in TablePatchers /\ ~Contains(JoinWith(SectionLines(history[k].before), NL), Pipe)) =>
            /\ StartsWithWrongConfig(history[k].before) =>
                  /\ Len(TableRows(history[k].after)) >= 3
                  /\ Contains(TableRows(history[k].after)[3], WrongConfig)
            /\ HasGenericRow(history[k].after) => ~HasSubsection(history[k].before)

(***************************************************************************)
(* Properties of the skill-document checks of the validator.               *)
(***************************************************************************)
\* the document has a line that is exactly the heading
HasHeadingLine(doc, heading) ==
    \E i \in 1..Len(SplitLines(doc)) : SplitLines(doc)[i] = heading

\* the validated plugins whose SKILL.md was read
ValidatedDocs == {i \in Validated : plugins[i].skills.kind = "doc"}

\* C18 as stated: a required section counts as present iff some line of the
\* document is exactly its `##` heading; a missing Failed Attempts heading
\* yields the error, any other missing heading the warning, and a `###`
\* heading or a paragraph holding the heading text does not make it present.
C18_ExactHeadingLine ==
    \A i \in ValidatedDocs : \A k \in DOMAIN required_sections :
        LET missing == ~HasHeadingLine(plugins[i].skills.content, required_sections[k].marker)
            asError == OfKind(results[i].errors, required_sections[k].name) # <<>>
            asWarning == OfKind(results[i].warnings, required_sections[k].name) # <<>>
        IN  IF IsFailedAttemptsEntry(k)
            THEN asError = missing /\ ~asWarning
            ELSE asWarning = missing /\ ~asError

\* C19 as stated: for a document with a Failed Attempts heading line, the
\* "should contain a table" warning is emitted iff the text from that heading
\* to the next `##`-level heading or the end of the document, `###`
\* subsections included, holds no pipe character.
C19_TableWarning ==
    \A i \in ValidatedDocs :
        HasHeadingLine(plugins[i].skills.content, HFailedAttempts) =>
            ((OfKind(results[i].warnings,
                     "Failed Attempts section should contain a table") # <<>>)
             <=> (\A k \in 1..Len(SectionLines(plugins[i].skills.content)) :
                     ~Contains(SectionLines(plugins[i].skills.content)[k], Pipe)))

\* the header row of the placeholder table of fix_validation_warnings
PlaceholderHeader == <<"|"," ","A","t","t","e","m","p","t"," ","|"," ","W","h","y"," ","F","a","i","l","e","d"," ","|"," ","L","e","s","s","o","n"," ","|">>

\* the Failed Attempts section of the document holds no pipe character
SectionWithoutPipe(doc) ==
    /\ HasHeadingLine(doc, HFailedAttempts)
    /\ \A k \in 1..Len(SectionLines(doc)) : ~Contains(SectionLines(doc)[k], Pipe)

\* C20 as stated: fix_skill_file of fix_validation_warnings, called on a
\* document whose Failed Attempts section holds no pipe character, wherever
\* the section stands, leaves the 3-column placeholder table inside that
\* section, and the validator no longer warns about a missing table.
C20_TableInserted ==
    \A k \in 1..Len(history) :
        (history[k].tool = "fix_validation_warnings" /\ SectionWithoutPipe(history[k].before)) =>
            /\ \E l \in 1..Len(SectionLines(history[k].after)) :
                   SectionLines(history[k].after)[l] = PlaceholderHeader
            /\ OfKind(SkillContentWarnings(history[k].after),
                      "Failed Attempts section should contain a table") = <<>>

\* C21 as stated: fix_skill_file of fix_validation_warnings, called on a
\* document that starts with the `---` frontmatter delimiter, with or without
\* a `# ` title behind the frontmatter, leaves a document that still starts
\* with `---`, so the validator reports no missing-frontmatter error for it.
C21_FrontmatterKept ==
    \A k \in 1..Len(history) :
        (/\ history[k].tool = "fix_validation_warnings"
         /\ StartsWith(history[k].before, FrontmatterDelimiter)) =>
            /\ StartsWith(history[k].after, FrontmatterDelimiter)
            /\ OfKind(SkillContentErrors(history[k].after),
                      "SKILL.md missing YAML frontmatter (must start with ---)") = <<>>

(***************************************************************************)
(* main() of the patchers: the loop over the skill documents, write_file.  *)
(***************************************************************************)
MaxRunDocs == 2      \* skill documents in the loop of a patcher's main

\* fix_skill_file of the script, on the content read_file returned
FixSkillFile(tool, content) ==
    CASE tool = "fix_validation_warnings" -> vw_fix_skill_file(content)
      [] tool = "fix_remaining_warnings" -> rw_fix_skill_file(content)
      [] OTHER -> fat_fix_skill_file(content)

\* `if not skill_file.exists(): continue` of the scripts that loop over a list
\* of plugin names
RunSkip ==
    /\ rpc = "loop"
    /\ rpos < Len(docs)
    /\ docs[rpos + 1].fault = "missing"
    /\ rpos' = rpos + 1
    /\ UNCHANGED <<rtool, docs, orig, rpc, pending, attempt, fixed>>
    /\ UNCHANGED <<valVars, idxVars, patchVars, callVars>>

\* fix_skill_file(skill_file) up to the open() of write_file, which empties
\* the file; an exception of read_file or open() leaves main
RunFixSkillFile ==
    /\ rpc = "loop"
    /\ rpos < Len(docs)
    /\ docs[rpos + 1].fault # "missing"
    /\ IF docs[rpos + 1].fault = "read"
       THEN /\ rpc' = "crashed"
            /\ UNCHANGED <<docs, rpos, pending, fixed>>
       ELSE \E r \in {FixSkillFile(rtool, docs[rpos + 1].content)} :
               IF r.content = docs[rpos + 1].content
               THEN /\ rpos' = rpos + 1
                    /\ fixed' = fixed \cup {rpos + 1}
                    /\ UNCHANGED <<docs, rpc, pending>>
               ELSE IF docs[rpos + 1].fault = "write"
               THEN /\ rpc' = "crashed"
                    /\ UNCHANGED <<docs, rpos, pending, fixed>>
               ELSE /\ docs' = [docs EXCEPT ![rpos + 1].content = <<>>]
                    /\ pending' = r.content
                    /\ rpc' = "write"
                    /\ UNCHANGED <<rpos, fixed>>
    /\ UNCHANGED <<rtool, orig, attempt>>
    /\ UNCHANGED <<valVars, idxVars, patchVars, callVars>>

\* f.write(content) and the close of write_file, the return of fix_skill_file
RunWrite ==
    /\ rpc = "write"
    /\ docs' = [docs EXCEPT ![rpos + 1].content = pending]
    /\ pending' = <<>>
    /\ rpos' = rpos + 1
    /\ fixed' = fixed \cup {rpos + 1}
    /\ rpc' = "loop"
    /\ UNCHANGED <<rtool, orig, attempt>>
    /\ UNCHANGED <<valVars, idxVars, patchVars, callVars>>

\* the end of the loop and the printed summary
RunSummary ==
    /\ rpc = "loop"
    /\ rpos = Len(docs)
    /\ rpc' = "done"
    /\ UNCHANGED <<rtool, docs, orig, rpos, pending, attempt, fixed>>
    /\ UNCHANGED <<valVars, idxVars, patchVars, callVars>>

\* the process is stopped: between two files, or inside write_file after
\* open() and before the content is written
RunInterrupt ==
    /\ attempt = 1
    /\ rpc \in {"loop", "write"}
    /\ rpc' = "interrupted"
    /\ pending' = <<>>
    /\ UNCHANGED <<rtool, docs, orig, rpos, attempt, fixed>>
    /\ UNCHANGED <<valVars, idxVars, patchVars, callVars>>

\* the script is started again over the files as they are
RunAgain ==
    /\ rpc = "interrupted"
    /\ attempt' = 2
    /\ rpos' = 0
    /\ fixed' = {}
    /\ rpc' = "loop"
    /\ UNCHANGED <<rtool, docs, orig, pending>>
    /\ UNCHANGED <<valVars, idxVars, patchVars, callVars>>

RunNext ==
    RunSkip \/ RunFixSkillFile \/ RunWrite \/ RunSummary \/ RunInterrupt \/ RunAgain

\* a Failed Attempts section without a table as the last section
DocLastSection == JoinLines(<<TitleLine, HOverview, TableRowLine, HFailedAttempts, ProseLine>>)

RunContents == {DocComplete, DocNoTable, DocLastSection}

\* read_file raises on the file, open() for writing raises, or neither
RunFiles == [content : RunContents, fault : {"none", "read", "write"}]

\* a plugin of the script's list without a SKILL.md
MissingFile == [content |-> <<>>, fault |-> "missing"]

RunInit ==
    /\ rtool \in PatchTools
    /\ docs \in UNION {[1..n -> IF rtool = "fix_validation_warnings"
                                 THEN RunFiles ELSE RunFiles \cup {MissingFile}] :
                         n \in 1..MaxRunDocs}
    /\ orig = [i \in DOMAIN docs |-> docs[i].content]
    /\ rpos = 0
    /\ rpc = "loop"
    /\ pending = <<>>
    /\ attempt = 1
    /\ fixed = {}

(***************************************************************************)
(* Properties of a patcher run.                                            *)
(***************************************************************************)
\* what an uninterrupted run without exceptions leaves in the i-th file
PatchedContent(i) == FixSkillFile(rtool, orig[i]).content

\* C15 as stated: when a run of a patcher has ended, by itself or by an
\* exception of read_file or write_file on one document, every document that
\* can be read and written has been processed and holds its patched content.
C15_FailureIsolated ==
    (attempt = 1 /\ rpc \in {"done", "crashed"}) =>
        \A i \in DOMAIN docs :
            docs[i].fault = "none" =>
                i \in fixed /\ docs[i].content = PatchedContent(i)

\* C17 as stated: after a run that was interrupted, between two files or
\* inside the write of one, and a second run that completed, every document
\* holds the content an uninterrupted run would have produced.
C17_ConvergesAfterInterrupt ==
    (/\ attempt = 2
     /\ rpc = "done"
     /\ \A i \in DOMAIN docs : docs[i].fault = "none") =>
        \A i \in DOMAIN docs : docs[i].content = PatchedContent(i)

(***************************************************************************)
(* The specifications: one per script, over the shared variables.          *)
(***************************************************************************)
\* no patcher runs
PatchOff ==
    /\ patcher = "off"
    /\ file = <<>>
    /\ history = <<>>

\* no single call is made
CallOff ==
    /\ fn = "off"
    /\ disk0 = <<>>
    /\ disk = <<>>
    /\ ret = <<>>

\* no patcher main runs
RunOff ==
    /\ rtool = "off"
    /\ docs = <<>>
    /\ orig = <<>>
    /\ rpos = 0
    /\ rpc = "off"
    /\ pending = <<>>
    /\ attempt = 1
    /\ fixed = {}

InitCall == CallInit /\ ValOff /\ IdxOff /\ PatchOff /\ RunOff

\* find_plugins and load_plugin_metadata, one call each
SpecCall == InitCall /\ [][CallNext]_vars

InitRun == RunInit /\ ValOff /\ IdxOff /\ PatchOff /\ CallOff

\* main() of a patcher over several documents, interrupted and run again
SpecRun == InitRun /\ [][RunNext]_vars

Init == ValInit /\ IdxOff /\ PatchOff /\ CallOff /\ RunOff

Next == ValNext

\* scripts/validate_plugins.py
Spec == Init /\ [][Next]_vars

InitIndex == IdxInit /\ ValOff /\ PatchOff /\ CallOff /\ RunOff

\* scripts/generate_marketplace.py
SpecIndex == InitIndex /\ [][IdxNext]_vars

InitPatch == PatchInit /\ ValOff /\ IdxOff /\ CallOff /\ RunOff

\* the three patchers, one document
SpecPatch == InitPatch /\ [][PatchNext]_vars

====
